---- MODULE Spec2Model ----
(***************************************************************************)
(* The command-understanding core of the JARVIS assistant:                 *)
(*   modules/conversation_context.py  ConversationContext (the Store)      *)
(*   modules/nlu_engine.py            NLUEngine                            *)
(*   modules/intent_resolver.py       IntentResolver                       *)
(*                                                                         *)
(* An utterance is the sequence of its space-separated tokens, each token  *)
(* a string; the regular expressions of the source are translated to       *)
(* operators over such sequences, with character-level tests inside a      *)
(* token.  A datetime is a number of clock ticks, TicksPerSecond to the    *)
(* second.  Python's None is None for strings and NoTime for datetimes.    *)
(***************************************************************************)
EXTENDS Integers, Sequences, FiniteSets, TLC

VARIABLES
    context,   \* IntentResolver.context: the ConversationContext object
    file,      \* the snapshot file save_context writes and load_context reads
    now,       \* the wall clock, in ticks: what datetime.now() returns
    heard,     \* the command the listener has handed over and that is being handled
    threads,   \* the worker threads (inside add_interaction, or the timers'): position and locals of each
    call,      \* the last operation called, with its arguments
    result,    \* what the last operation returned
    added,     \* history variable: the interactions add_interaction was given since construction
    loaded,    \* history variable: load_context has replaced the history since construction
    saved,     \* history variable: the Store state the last successful save_context wrote
    timer_service  \* SimpleCommands.timer_service: the TimerService object

vars == <<context, file, now, heard, threads, call, result, added, loaded, saved, timer_service>>

----------------------------------------------------------------------------
(* Bounds of the model *)

MaxHistory == 2      \* max_history is configured in 1..MaxHistory
MaxTime == 3         \* the clock stops here, and no further turn is taken
MaxThreads == 2      \* worker threads that record a turn at the same time
TicksPerSecond == 2  \* clock resolution below the second
ContextTimeout == 1  \* context_timeout, in seconds

None == "None"
NoTime == -1

----------------------------------------------------------------------------
(* Strings and tokens *)

LowerLetters == "abcdefghijklmnopqrstuvwxyz"
UpperLetters == "ABCDEFGHIJKLMNOPQRSTUVWXYZ"
DigitChars == "0123456789"

Char(s, i) == SubSeq(s, i, i)

IsIn(c, str) == \E i \in 1..Len(str) : Char(str, i) = c

IsLetter(c) == IsIn(c, LowerLetters) \/ IsIn(c, UpperLetters)

IsDigit(c) == IsIn(c, DigitChars)

\* str.lower(), and what re.IGNORECASE compares
LowerChar(c) ==
    IF IsIn(c, UpperLetters)
    THEN Char(LowerLetters, CHOOSE i \in 1..Len(UpperLetters) : Char(UpperLetters, i) = c)
    ELSE c

RECURSIVE LowerFrom(_, _)
LowerFrom(w, i) == IF i > Len(w) THEN "" ELSE LowerChar(Char(w, i)) \o LowerFrom(w, i + 1)

Lower(w) == LowerFrom(w, 1)

LowerAll(u) == [i \in 1..Len(u) |-> Lower(u[i])]

StartsWith(w, p) == Len(p) <= Len(w) /\ SubSeq(w, 1, Len(p)) = p

EndsWith(w, p) == Len(p) <= Len(w) /\ SubSeq(w, Len(w) - Len(p) + 1, Len(w)) = p

\* Python's "p in w" on strings
Contains(w, p) == \E i \in 1..(Len(w) - Len(p) + 1) : SubSeq(w, i, i + Len(p) - 1) = p

IsAlpha(w) == Len(w) > 0 /\ \A i \in 1..Len(w) : IsLetter(Char(w, i))

IsDigits(w) == Len(w) > 0 /\ \A i \in 1..Len(w) : IsDigit(Char(w, i))

\* the longest prefix of w made of letters: what [A-Za-z]+ takes at the start of a token
AlphaHeadLen(w) ==
    IF \E i \in 1..Len(w) : ~IsLetter(Char(w, i))
    THEN (CHOOSE i \in 1..Len(w) :
            /\ ~IsLetter(Char(w, i))
            /\ \A j \in 1..(i - 1) : IsLetter(Char(w, j))) - 1
    ELSE Len(w)

AlphaHead(w) == SubSeq(w, 1, AlphaHeadLen(w))

\* \w
IsWordChar(c) == IsLetter(c) \/ IsDigit(c) \/ c = "_"

\* the maximal suffix of w made of word characters: what follows the last \b inside a token
WordTailLen(w) ==
    IF \E i \in 1..Len(w) : ~IsWordChar(Char(w, i))
    THEN Len(w) - (CHOOSE i \in 1..Len(w) :
            /\ ~IsWordChar(Char(w, i))
            /\ \A j \in (i + 1)..Len(w) : IsWordChar(Char(w, j)))
    ELSE Len(w)

WordTail(w) == SubSeq(w, Len(w) - WordTailLen(w) + 1, Len(w))

\* the least index of a set of indices, or 0: where re.search finds its leftmost match
FirstIndex(S) == IF S = {} THEN 0 ELSE CHOOSE i \in S : \A j \in S : i <= j

\* the end of the longest run of digits of w that starts at a (a - 1 when none)
DigitsEnd(w, a) ==
    IF \E e \in a..Len(w) : ~IsDigit(Char(w, e))
    THEN (CHOOSE e \in a..Len(w) :
            /\ ~IsDigit(Char(w, e))
            /\ \A k \in a..(e - 1) : IsDigit(Char(w, k))) - 1
    ELSE Len(w)

\* the maximal prefix of w made of word characters: what \w+ takes at the start of a token
WordHeadLen(w) ==
    IF \E i \in 1..Len(w) : ~IsWordChar(Char(w, i))
    THEN (CHOOSE i \in 1..Len(w) :
            /\ ~IsWordChar(Char(w, i))
            /\ \A j \in 1..(i - 1) : IsWordChar(Char(w, j))) - 1
    ELSE Len(w)

WordHead(w) == SubSeq(w, 1, WordHeadLen(w))

\* where p occurs in the token w
Occurrences(w, p) ==
    { a \in 1..(Len(w) - Len(p) + 1) : SubSeq(w, a, a + Len(p) - 1) = p }

\* \b holds in front of position a of the token w, that starts a word character
BoundedBefore(w, a) == a = 1 \/ ~IsWordChar(Char(w, a - 1))

\* \b holds behind position e of the token w, that holds a word character
BoundedAfter(w, e) == e = Len(w) \/ ~IsWordChar(Char(w, e + 1))

\* \b(phrase)\b matches at token i of the lower-cased utterance lu; the words of a
\* phrase are separated by exactly one space
PhraseAt(lu, i, phrase) ==
    LET k == Len(phrase) IN
    /\ i + k - 1 <= Len(lu)
    /\ IF k = 1
       THEN \E a \in Occurrences(lu[i], phrase[1]) :
                BoundedBefore(lu[i], a) /\ BoundedAfter(lu[i], a + Len(phrase[1]) - 1)
       ELSE /\ EndsWith(lu[i], phrase[1])
            /\ BoundedBefore(lu[i], Len(lu[i]) - Len(phrase[1]) + 1)
            /\ \A m \in 2..(k - 1) : lu[i + m - 1] = phrase[m]
            /\ StartsWith(lu[i + k - 1], phrase[k])
            /\ BoundedAfter(lu[i + k - 1], Len(phrase[k]))

\* re.search(r'\b(p1|p2|...)\b', text, re.IGNORECASE) finds a match
Matches(u, phrases) ==
    LET lu == LowerAll(u)
    IN  \E phrase \in phrases : \E i \in 1..Len(lu) : PhraseAt(lu, i, phrase)

\* single-word alternatives
Words(ws) == { <<w>> : w \in ws }

\* Python's "word in text" for a word without spaces
ContainsWord(u, word) == \E i \in 1..Len(u) : Contains(u[i], word)

----------------------------------------------------------------------------
(* dict helpers *)

EmptyDict == [k \in {} |-> 0]

DictSet(d, k, v) == [x \in (DOMAIN d) \cup {k} |-> IF x = k THEN v ELSE d[x]]

----------------------------------------------------------------------------
(* ConversationContext *)

\* ConversationContext.__init__
ConversationContext(max_history, context_timeout) ==
    [ max_history |-> max_history,
      context_timeout |-> context_timeout,
      conversation_history |-> <<>>,
      current_topic |-> None,
      current_entity |-> None,
      last_command_type |-> None,
      last_response_time |-> NoTime,
      context_vars |-> EmptyDict,
      entities |-> EmptyDict ]

\* re.search(r'\b(?:in|for|at)\s+([A-Za-z\s]+)', user_input, re.IGNORECASE):
\* the first token that ends, after a word boundary, in "in", "for" or "at" and is
\* followed by a token that starts with a letter
LocationMatchAt(u, i) ==
    /\ i < Len(u)
    /\ Lower(WordTail(u[i])) \in {"in", "for", "at"}
    /\ AlphaHeadLen(u[i + 1]) > 0

\* group(1).strip(): the letters and spaces that follow, up to the first other character
RECURSIVE AlphaRun(_, _)
AlphaRun(u, j) ==
    IF j > Len(u) THEN <<>>
    ELSE IF IsAlpha(u[j]) THEN <<u[j]>> \o AlphaRun(u, j + 1)
    ELSE IF AlphaHeadLen(u[j]) > 0 THEN <<AlphaHead(u[j])>>
    ELSE <<>>

\* re.search(r'play\s+(.+)', user_input, re.IGNORECASE)
PlayMatchAt(u, i) == i < Len(u) /\ EndsWith(Lower(u[i]), "play")

\* the group of re.search(r'play\s+(.+)', text, re.IGNORECASE), stripped; <<>>
\* when there is no match
PlayQuery(text) ==
    LET i == FirstIndex({k \in 1..Len(text) : PlayMatchAt(text, k)})
    IN  IF i > 0 THEN SubSeq(text, i + 1, Len(text)) ELSE <<>>

TimerUnits == {"minute", "hour", "second"}

\* the units that \s*(minute|hour|second) finds behind character e of token i
TimerUnitsAfter(u, i, e) ==
    { unit \in TimerUnits :
        IF e < Len(u[i]) THEN (e + 1) \in Occurrences(Lower(u[i]), unit)
        ELSE i < Len(u) /\ StartsWith(Lower(u[i + 1]), unit) }

\* the characters of token i where a run of digits starts that a unit follows
TimerStarts(u, i) ==
    { a \in 1..Len(u[i]) :
        /\ IsDigit(Char(u[i], a))
        /\ (a = 1 \/ ~IsDigit(Char(u[i], a - 1)))
        /\ TimerUnitsAfter(u, i, DigitsEnd(u[i], a)) # {} }

\* f"{group(1)} {group(2)}" of re.search(r'(\d+)\s*(minute|hour|second)', text,
\* re.IGNORECASE); <<>> when there is no match
TimerDuration(text) ==
    LET i == FirstIndex({k \in 1..Len(text) : TimerStarts(text, k) # {}})
    IN  IF i = 0 THEN <<>>
        ELSE LET a == FirstIndex(TimerStarts(text, i))
                 e == DigitsEnd(text[i], a)
                 n == Len(CHOOSE unit \in TimerUnitsAfter(text, i, e) : TRUE)
             IN  << SubSeq(text[i], a, e),
                    IF e < Len(text[i]) THEN SubSeq(text[i], e + 1, e + n)
                    ELSE SubSeq(text[i + 1], 1, n) >>

\* mutant: a timer turn starts the context variables afresh
TimerStartsAfresh(self, user_input, command_type) ==
    IF command_type = "timer" /\ TimerDuration(user_input) # <<>>
    THEN DictSet(EmptyDict, "last_timer_duration", TimerDuration(user_input))
    ELSE self.context_vars

\* ConversationContext._update_context_vars: the new context_vars
_update_context_vars(self, user_input, command_type) ==
    IF command_type = "weather" THEN
        LET i == FirstIndex({k \in 1..Len(user_input) : LocationMatchAt(user_input, k)})
        IN  IF i > 0
            THEN DictSet(self.context_vars, "last_location", AlphaRun(user_input, i + 1))
            ELSE self.context_vars
    ELSE IF command_type = "music" THEN
        IF PlayQuery(user_input) # <<>>
        THEN DictSet(self.context_vars, "last_music_query", PlayQuery(user_input))
        ELSE self.context_vars
    ELSE IF command_type = "timer" THEN
        IF TimerDuration(user_input) # <<>>
        THEN DictSet(self.context_vars, "last_timer_duration", TimerDuration(user_input))
        ELSE self.context_vars
    ELSE self.context_vars

\* the interaction dict add_interaction builds
Interaction(timestamp, user_input, jarvis_response, command_type, entities) ==
    [ timestamp |-> timestamp,
      user_input |-> user_input,
      jarvis_response |-> jarvis_response,
      command_type |-> command_type,
      entities |-> entities ]

\* mutant: the newest interaction is dropped on overflow (pop() for pop(0))
AppendBoundedDropNewest(history, interaction, max_history) ==
    LET appended == Append(history, interaction)
    IN  IF Len(appended) > max_history THEN SubSeq(appended, 1, Len(appended) - 1) ELSE appended

\* self.conversation_history.append(interaction), then pop(0) when over max_history
AppendBounded(history, interaction, max_history) ==
    LET appended == Append(history, interaction)
    IN  IF Len(appended) > max_history THEN Tail(appended) ELSE appended

\* for entity in entities: self.entities[entity] = datetime.now()
RECURSIVE StampEntities(_, _, _)
StampEntities(memory, entities, t) ==
    IF entities = <<>> THEN memory
    ELSE StampEntities(DictSet(memory, Head(entities), t), Tail(entities), t)

\* ConversationContext.add_interaction, called when the clock reads t
add_interaction(self, user_input, jarvis_response, command_type, entities, t) ==
    [ self EXCEPT
        !.conversation_history =
            AppendBounded(self.conversation_history,
                          Interaction(t, user_input, jarvis_response, command_type, entities),
                          self.max_history),
        !.last_command_type = command_type,
        !.last_response_time = t,
        !.entities = StampEntities(self.entities, entities, t),
        !.context_vars = _update_context_vars(self, user_input, command_type) ]

\* mutant: the context variables outlive clear_context
ClearKeepsContextVars(self) ==
    [ self EXCEPT !.current_topic = None, !.current_entity = None, !.last_command_type = None ]

\* ConversationContext.clear_context
clear_context(self) ==
    [ self EXCEPT
        !.current_topic = None,
        !.current_entity = None,
        !.last_command_type = None,
        !.context_vars = EmptyDict ]

\* timedelta(seconds=self.context_timeout), in ticks
TimeoutTicks(self) == self.context_timeout * TicksPerSecond

follow_up_patterns ==
    { <<"what", "about">>, <<"how", "about">>, <<"and">>,
      <<"also">>, <<"too">>, <<"as", "well">>,
      <<"tomorrow">>, <<"yesterday">>, <<"next">>, <<"last">>,
      <<"there">>, <<"here">>, <<"that">>, <<"this">>,
      <<"more">>, <<"another">>, <<"different">> }

\* mutant: the context never times out
NeverExpired(self, t) == FALSE

\* datetime.now() - self.last_response_time > timedelta(seconds=self.context_timeout)
Expired(self, t) == t - self.last_response_time > TimeoutTicks(self)

\* ConversationContext._is_follow_up_question, called when the clock reads t
_is_follow_up_question(self, user_input, t) ==
    IF self.last_response_time = NoTime THEN FALSE
    ELSE IF Expired(self, t) THEN FALSE
    ELSE Matches(user_input, follow_up_patterns)

\* mutant: the words of time are no references
ReferencesWithoutTime ==
    Words({"it", "that", "this", "there", "here"}) \cup Words({"more", "another", "different"})

reference_patterns ==
    Words({"it", "that", "this", "there", "here"})
        \cup Words({"tomorrow", "yesterday", "next", "last"})
        \cup Words({"more", "another", "different"})

\* ConversationContext._get_referenced_topic
_get_referenced_topic(self, user_input) ==
    IF self.last_command_type = None \/ self.last_command_type = "" THEN None
    ELSE IF Matches(user_input, reference_patterns) THEN self.last_command_type
    ELSE None

\* ConversationContext._get_implied_command, called when the clock reads t
_get_implied_command(self, user_input, t) ==
    IF ~_is_follow_up_question(self, user_input, t) THEN None
    ELSE IF self.last_command_type = "weather"
              /\ Matches(user_input, Words({"tomorrow", "next", "later"}))
         THEN "weather_forecast"
    ELSE IF self.last_command_type = "weather"
              /\ Matches(user_input, {<<"there">>, <<"that", "place">>})
         THEN "weather_location"
    ELSE IF self.last_command_type = "music"
              /\ Matches(user_input, Words({"more", "another", "different"}))
         THEN "music_similar"
    ELSE IF self.last_command_type = "music"
              /\ Matches(user_input, Words({"pause", "stop", "next", "previous"}))
         THEN "music_control"
    ELSE self.last_command_type

\* ConversationContext._get_recent_entities, called when the clock reads t: the
\* entities seen after the cutoff (as a set: the list's order is the dict's)
_get_recent_entities(self, t) ==
    { e \in DOMAIN self.entities : self.entities[e] > t - TimeoutTicks(self) }

\* how often x occurs in the list: list.count
Count(list, x) == Cardinality({i \in 1..Len(list) : list[i] = x})

Range(list) == { list[i] : i \in 1..Len(list) }

\* max(set(recent_commands), key=recent_commands.count): the most frequent command
\* type; among equally frequent ones the set's iteration order, the same for
\* the whole life of a process, decides. Here: the one that occurs first in the list
DominantTopic(recent) ==
    LET best == { x \in Range(recent) : \A y \in Range(recent) : Count(recent, y) <= Count(recent, x) }
        first == FirstIndex({i \in 1..Len(recent) : recent[i] \in best})
    IN  recent[first]

\* ConversationContext._analyze_conversation_flow
_analyze_conversation_flow(self) ==
    IF Len(self.conversation_history) < 2
    THEN [pattern |-> "initial", trend |-> "none"]
    ELSE LET h == self.conversation_history
             from == IF Len(h) > 5 THEN Len(h) - 4 ELSE 1
             recent == [i \in 1..(Len(h) - from + 1) |-> h[from + i - 1].command_type]
             n == Len(recent)
         IN  [ pattern |->
                   IF Cardinality(Range(recent)) = 1 /\ recent[1] # None /\ recent[1] # ""
                   THEN "focused"
                   ELSE IF n > 2 /\ recent[n] = recent[n - 2] THEN "alternating"
                   ELSE "varied",
               recent_commands |-> recent,
               dominant_topic |-> DominantTopic(recent) ]

\* ConversationContext.get_context_for_input, called when the clock reads t
get_context_for_input(self, user_input, t) ==
    [ is_follow_up |-> _is_follow_up_question(self, user_input, t),
      referenced_topic |-> _get_referenced_topic(self, user_input),
      implied_command |-> _get_implied_command(self, user_input, t),
      context_vars |-> self.context_vars,
      recent_entities |-> _get_recent_entities(self, t),
      conversation_flow |-> _analyze_conversation_flow(self) ]

HasKey(d, k) == k \in DOMAIN d

\* the rewritten text of ConversationContext.resolve_follow_up
ResolvedInput(cx, user_input) ==
    LET lu == LowerAll(user_input)
        cv == cx.context_vars
    IN  IF cx.referenced_topic = "weather" THEN
            IF ContainsWord(lu, "tomorrow")
            THEN <<"weather", "forecast", "tomorrow">>
                     \o (IF HasKey(cv, "last_location") THEN <<"in">> \o cv["last_location"] ELSE <<>>)
            ELSE IF ContainsWord(lu, "there") /\ HasKey(cv, "last_location")
            THEN <<"weather", "in">> \o cv["last_location"]
            ELSE user_input
        ELSE IF cx.referenced_topic = "music" THEN
            IF (ContainsWord(lu, "more") \/ ContainsWord(lu, "another"))
                   /\ HasKey(cv, "last_music_query")
            THEN <<"play", "similar", "to">> \o cv["last_music_query"]
            ELSE user_input
        ELSE user_input

\* ConversationContext.resolve_follow_up, called when the clock reads t
resolve_follow_up(self, user_input, t) ==
    LET cx == get_context_for_input(self, user_input, t)
    IN  IF ~cx.is_follow_up
        THEN [ resolved |-> FALSE, original_input |-> user_input ]
        ELSE [ resolved |-> TRUE, original_input |-> user_input,
               resolved_input |-> ResolvedInput(cx, user_input),
               command_type |-> cx.implied_command, context |-> cx ]

----------------------------------------------------------------------------
(* Persistence: save_context, load_context *)

\* mutant: the fraction of a second is not written (isoformat(timespec='seconds'))
isoformatSeconds(t) == [sec |-> t \div TicksPerSecond, frac |-> 0]

\* datetime.isoformat(): the seconds, and the fraction of a second (left out when it is 0)
isoformat(t) == [sec |-> t \div TicksPerSecond, frac |-> t % TicksPerSecond]

\* what datetime.fromisoformat accepts
IsIsoFormat(s) == s.sec >= 0 /\ s.frac \in 0..(TicksPerSecond - 1)

\* datetime.fromisoformat()
fromisoformat(s) == s.sec * TicksPerSecond + s.frac

\* a string datetime.fromisoformat rejects with ValueError
NotIso == [sec |-> 0 - 1, frac |-> 0]

NoFile == [kind |-> "missing", data |-> <<>>]

Garbage == [kind |-> "garbage", data |-> <<>>]

\* the context_data dict save_context serialises
ContextData(self) ==
    [ conversation_history |->
          [i \in 1..Len(self.conversation_history) |->
              [self.conversation_history[i] EXCEPT !.timestamp = isoformat(@)]],
      context_vars |-> self.context_vars,
      entities |-> [e \in DOMAIN self.entities |-> isoformat(self.entities[e])] ]

IoOutcomes == {"ok", "open_fails", "write_fails"}

\* ConversationContext.save_context: the file afterwards.  open(filepath, 'w') may
\* fail, leaving the file as it was; a failure inside json.dump leaves it truncated.
save_context(self, f, io) ==
    IF io = "open_fails" THEN f
    ELSE IF io = "write_fails" THEN Garbage
    ELSE [kind |-> "json", data |-> ContextData(self)]

\* the index of the first stored interaction whose timestamp fromisoformat rejects, or 0
FirstBadInteraction(data) ==
    FirstIndex({i \in 1..Len(data.conversation_history) :
                   ~IsIsoFormat(data.conversation_history[i].timestamp)})

BadEntityTimestamp(data) == \E e \in DOMAIN data.entities : ~IsIsoFormat(data.entities[e])

RestoredHistory(data, n) ==
    [i \in 1..n |-> [data.conversation_history[i] EXCEPT !.timestamp = fromisoformat(@)]]

\* load_context runs to its end without an exception
LoadSucceeds(f) ==
    /\ f.kind = "json"
    /\ FirstBadInteraction(f.data) = 0
    /\ ~BadEntityTimestamp(f.data)

\* the exception the try block of save_context raises, or None
SaveRaises(io) == IF io \in {"open_fails", "write_fails"} THEN "OSError" ELSE None

\* the exception the try block of load_context raises, or None: open() of a missing
\* file, json.load of a file that is no JSON, fromisoformat of a bad timestamp
LoadRaises(f) ==
    IF f.kind = "missing" THEN "FileNotFoundError"
    ELSE IF f.kind = "garbage" THEN "JSONDecodeError"
    ELSE IF FirstBadInteraction(f.data) > 0 \/ BadEntityTimestamp(f.data) THEN "ValueError"
    ELSE None

\* mutant: except OSError, which FileNotFoundError is a subclass of
ExceptOSError(e) == e \in {"OSError", "FileNotFoundError"}

\* except Exception as e: OSError, FileNotFoundError, JSONDecodeError and ValueError
\* are all subclasses of Exception
ExceptException(e) == e \in {"OSError", "FileNotFoundError", "JSONDecodeError", "ValueError"}

\* what reaches the caller of a method whose body raised e inside try ... except
Raised(e) == IF e # None /\ ~ExceptException(e) THEN e ELSE None

\* ConversationContext.load_context: the Store afterwards.  Whatever was assigned
\* before an exception is caught stays assigned.
load_context(self, f) ==
    IF f.kind # "json" THEN self
    ELSE IF FirstBadInteraction(f.data) > 0
    THEN [self EXCEPT !.conversation_history =
                          RestoredHistory(f.data, FirstBadInteraction(f.data) - 1)]
    ELSE LET history == RestoredHistory(f.data, Len(f.data.conversation_history))
             restored == [self EXCEPT !.conversation_history = history,
                                      !.context_vars = f.data.context_vars]
         IN  IF BadEntityTimestamp(f.data) THEN restored
             ELSE LET withEntities ==
                          [restored EXCEPT !.entities =
                              [e \in DOMAIN f.data.entities |-> fromisoformat(f.data.entities[e])]]
                  IN  IF history # <<>>
                      THEN [withEntities EXCEPT
                              !.last_command_type = history[Len(history)].command_type,
                              !.last_response_time = history[Len(history)].timestamp]
                      ELSE withEntities

----------------------------------------------------------------------------
(* Numbers: the confidences are fractions, kept exact and in lowest terms *)

RECURSIVE GCD(_, _)
GCD(a, b) == IF b = 0 THEN a ELSE GCD(b, a % b)

Rat(n, d) == LET g == GCD(n, d) IN [num |-> n \div g, den |-> d \div g]

Tenths(k) == Rat(k, 10)

RatAdd(x, y) == Rat(x.num * y.den + y.num * x.den, x.den * y.den)

RatSub(x, y) == LET n == x.num * y.den - y.num * x.den
                    d == x.den * y.den
                    g == GCD(IF n < 0 THEN -n ELSE n, d)
                IN  [num |-> n \div g, den |-> d \div g]

RatMul(x, y) == Rat(x.num * y.num, x.den * y.den)

RatDiv(x, k) == Rat(x.num, x.den * k)

RatLess(x, y) == x.num * y.den < y.num * x.den

RatLeq(x, y) == x.num * y.den <= y.num * x.den

RatMin(x, y) == IF RatLess(y, x) THEN y ELSE x

----------------------------------------------------------------------------
(* NLUEngine: preprocessing and intent classification *)

\* str.strip() on the token sequence: the empty tokens at both ends go
RECURSIVE StripLeft(_)
StripLeft(u) == IF u # <<>> /\ Head(u) = "" THEN StripLeft(Tail(u)) ELSE u

RECURSIVE StripRight(_)
StripRight(u) ==
    IF u # <<>> /\ u[Len(u)] = "" THEN StripRight(SubSeq(u, 1, Len(u) - 1)) ELSE u

Strip(u) == StripRight(StripLeft(u))

\* the text xs followed directly, without a space, by the text ys
Glue(xs, ys) ==
    IF xs = <<>> THEN ys
    ELSE IF ys = <<>> THEN xs
    ELSE SubSeq(xs, 1, Len(xs) - 1) \o <<xs[Len(xs)] \o ys[1]>> \o Tail(ys)

\* re.sub(r'\bfiller\b', '', token) for a filler of one word
RECURSIVE RemoveWordToken(_, _)
RemoveWordToken(w, filler) ==
    LET hits == { a \in Occurrences(w, filler) :
                    BoundedBefore(w, a) /\ BoundedAfter(w, a + Len(filler) - 1) }
    IN  IF hits = {} THEN w
        ELSE LET a == FirstIndex(hits)
             IN  SubSeq(w, 1, a - 1)
                     \o RemoveWordToken(SubSeq(w, a + Len(filler), Len(w)), filler)

\* re.sub(r'\bfiller\b', '', text) for a filler of two words: the tokens the
\* filler joined become one
RECURSIVE RemovePhrase(_, _)
RemovePhrase(u, filler) ==
    LET hits == { i \in 1..(Len(u) - 1) : PhraseAt(u, i, filler) }
    IN  IF hits = {} THEN u
        ELSE LET i == FirstIndex(hits)
                 before == SubSeq(u[i], 1, Len(u[i]) - Len(filler[1]))
                 after == SubSeq(u[i + 1], Len(filler[2]) + 1, Len(u[i + 1]))
             IN  SubSeq(u, 1, i - 1)
                     \o Glue(<<before>>, RemovePhrase(<<after>> \o SubSeq(u, i + 2, Len(u)), filler))

filler_words == << <<"um">>, <<"uh">>, <<"like">>, <<"you", "know">>, <<"well">> >>

RemoveFiller(u, filler) ==
    IF Len(filler) = 1 THEN [i \in 1..Len(u) |-> RemoveWordToken(u[i], filler[1])]
    ELSE RemovePhrase(u, filler)

RECURSIVE RemoveFillers(_, _)
RemoveFillers(u, k) ==
    IF k > Len(filler_words) THEN u
    ELSE RemoveFillers(RemoveFiller(u, filler_words[k]), k + 1)

contractions ==
    << <<"what's", <<"what", "is">> >>, <<"how's", <<"how", "is">> >>,
       <<"where's", <<"where", "is">> >>, <<"when's", <<"when", "is">> >>,
       <<"who's", <<"who", "is">> >>, <<"can't", <<"cannot">> >>,
       <<"won't", <<"will", "not">> >>, <<"don't", <<"do", "not">> >>,
       <<"didn't", <<"did", "not">> >> >>

\* token.replace(contraction, expansion): the token may become several
RECURSIVE ReplaceToken(_, _, _)
ReplaceToken(w, contraction, expansion) ==
    LET hits == Occurrences(w, contraction)
    IN  IF hits = {} THEN <<w>>
        ELSE LET a == FirstIndex(hits)
             IN  Glue(Glue(<<SubSeq(w, 1, a - 1)>>, expansion),
                      ReplaceToken(SubSeq(w, a + Len(contraction), Len(w)), contraction, expansion))

RECURSIVE Replace(_, _, _)
Replace(u, contraction, expansion) ==
    IF u = <<>> THEN <<>>
    ELSE ReplaceToken(Head(u), contraction, expansion) \o Replace(Tail(u), contraction, expansion)

RECURSIVE NormalizeContractions(_, _)
NormalizeContractions(u, k) ==
    IF k > Len(contractions) THEN u
    ELSE NormalizeContractions(Replace(u, contractions[k][1], contractions[k][2]), k + 1)

\* NLUEngine._preprocess_input
_preprocess_input(user_input) ==
    Strip(NormalizeContractions(RemoveFillers(Strip(LowerAll(user_input)), 1), 1))

\* the three shapes of intent pattern: \b(p1|p2|...)\b over phrases,
\* \b(head.*(?:t1|t2))\b, and \b(\d+\s*[\+\-\*\/]\s*\d+)\b
Phrases(ps) == [kind |-> "phrases", phrases |-> ps]

Gap(heads, tails) == [kind |-> "gap", heads |-> heads, tails |-> tails]

Arithmetic == [kind |-> "arithmetic"]

\* the positions <<token, character>> where a match of head, with \b in front, ends
HeadEnds(lu, head) ==
    LET k == Len(head) IN
    IF k = 1
    THEN UNION { { <<i, a + Len(head[1]) - 1>> : a \in
                       { b \in Occurrences(lu[i], head[1]) : BoundedBefore(lu[i], b) } } :
                 i \in 1..Len(lu) }
    ELSE { <<i + k - 1, Len(head[k])>> : i \in
             { j \in 1..(Len(lu) - k + 1) :
                 /\ EndsWith(lu[j], head[1])
                 /\ BoundedBefore(lu[j], Len(lu[j]) - Len(head[1]) + 1)
                 /\ \A m \in 2..(k - 1) : lu[j + m - 1] = head[m]
                 /\ StartsWith(lu[j + k - 1], head[k]) } }

\* the positions <<token, character>> where a match of the word tail, with \b
\* behind, starts
TailStarts(lu, tail) ==
    UNION { { <<i, a>> : a \in
                { b \in Occurrences(lu[i], tail) : BoundedAfter(lu[i], b + Len(tail) - 1) } } :
            i \in 1..Len(lu) }

Before(x, y) == x[1] < y[1] \/ (x[1] = y[1] /\ x[2] < y[2])

GapMatches(lu, heads, tails) ==
    \E head \in heads, tail \in tails :
        \E h \in HeadEnds(lu, head), t \in TailStarts(lu, tail) : Before(h, t)

Operators == "+-*/"

\* the non-empty tokens: \s* spans any run of spaces
RECURSIVE NonEmpty(_)
NonEmpty(u) ==
    IF u = <<>> THEN <<>>
    ELSE IF Head(u) = "" THEN NonEmpty(Tail(u))
    ELSE <<Head(u)>> \o NonEmpty(Tail(u))

\* digits, an operator, digits inside the text c, with \b at both ends, where the
\* spaces of the text (at the positions in cuts) are next to the operator
ArithmeticIn(c, cuts) ==
    \E b \in 1..(Len(c) - 2) :
        /\ IsDigit(Char(c, b)) /\ IsIn(Char(c, b + 1), Operators) /\ IsDigit(Char(c, b + 2))
        /\ cuts \subseteq {b, b + 1}
        /\ \E a \in 1..b :
              /\ \A k \in a..b : IsDigit(Char(c, k))
              /\ BoundedBefore(c, a)
        /\ \E e \in (b + 2)..Len(c) :
              /\ \A k \in (b + 2)..e : IsDigit(Char(c, k))
              /\ BoundedAfter(c, e)

ArithmeticMatches(lu) ==
    LET v == NonEmpty(lu) IN
    \E i \in 1..Len(v) :
        \/ ArithmeticIn(v[i], {})
        \/ i + 1 <= Len(v) /\ ArithmeticIn(v[i] \o v[i + 1], {Len(v[i])})
        \/ i + 2 <= Len(v) /\ ArithmeticIn(v[i] \o v[i + 1] \o v[i + 2],
                                           {Len(v[i]), Len(v[i]) + Len(v[i + 1])})

\* re.findall(pattern, processed_input, re.IGNORECASE) is not empty
PatternMatches(pattern, processed_input) ==
    LET lu == LowerAll(processed_input) IN
    CASE pattern.kind = "phrases" ->
             \E phrase \in pattern.phrases : \E i \in 1..Len(lu) : PhraseAt(lu, i, phrase)
      [] pattern.kind = "gap" -> GapMatches(lu, pattern.heads, pattern.tails)
      [] pattern.kind = "arithmetic" -> ArithmeticMatches(lu)

\* the intents in the order of the intent_patterns dict
IntentNames ==
    << "weather", "music", "time", "calendar", "timer", "calculator", "system", "web",
       "email", "news", "wikipedia", "joke", "greeting", "goodbye", "help" >>

intent_patterns ==
    [ weather |-> << Phrases(Words({"weather", "temperature", "forecast", "rain", "sunny", "cloudy", "storm"})),
                     Gap({<<"how">>}, {"hot", "cold", "warm"}),
                     Phrases({<<"will", "it", "rain">>, <<"is", "it", "raining">>}) >>,
      music |-> << Phrases(Words({"play", "music", "song", "artist", "album", "spotify", "youtube"})),
                   Phrases(Words({"pause", "resume", "stop", "next", "previous", "skip"})),
                   Phrases(Words({"volume", "loud", "quiet"})) >>,
      time |-> << Phrases(Words({"time", "clock", "hour", "minute", "when"})),
                  Phrases({<<"what", "time">>, <<"current", "time">>}) >>,
      calendar |-> << Phrases(Words({"calendar", "appointment", "meeting", "schedule", "event"})),
                      Phrases({<<"today">>, <<"tomorrow">>, <<"next", "week">>, <<"this", "week">>}) >>,
      timer |-> << Phrases(Words({"timer", "alarm", "remind", "countdown"})),
                   Gap({<<"set">>, <<"start">>}, {"timer"}) >>,
      calculator |-> << Phrases(Words({"calculate", "math", "plus", "minus", "times", "divide"})),
                        Arithmetic >>,
      system |-> << Phrases(Words({"system", "computer", "cpu", "memory", "disk", "battery"})),
                    Phrases(Words({"shutdown", "restart", "sleep"})) >>,
      web |-> << Phrases(Words({"search", "google", "open", "website", "browser"})),
                 Phrases(Words({"youtube", "github", "stackoverflow"})) >>,
      email |-> << Phrases(Words({"email", "mail", "message", "send"})),
                   Phrases(Words({"inbox", "unread"})) >>,
      news |-> << Phrases(Words({"news", "headlines", "breaking", "latest"})),
                  Phrases({<<"current", "events">>}) >>,
      wikipedia |-> << Phrases({<<"wikipedia">>, <<"wiki">>, <<"tell", "me", "about">>, <<"what", "is">>}),
                       Phrases({<<"information", "about">>, <<"facts", "about">>}) >>,
      joke |-> << Phrases(Words({"joke", "funny", "humor", "laugh"})),
                  Phrases({<<"make", "me", "laugh">>}) >>,
      greeting |-> << Phrases({<<"hello">>, <<"hi">>, <<"hey">>, <<"good", "morning">>,
                               <<"good", "afternoon">>, <<"good", "evening">>}),
                      Phrases({<<"how", "are", "you">>, <<"what's", "up">>}) >>,
      goodbye |-> << Phrases({<<"bye">>, <<"goodbye">>, <<"see", "you">>, <<"exit">>, <<"quit">>, <<"stop">>}),
                     Phrases({<<"shut", "down">>, <<"turn", "off">>}) >>,
      help |-> << Phrases({<<"help">>, <<"assist">>, <<"support">>, <<"what", "can", "you", "do">>}),
                  Phrases(Words({"commands", "functions", "capabilities"})) >> ]

\* the two patterns that are an alternative of a gap and a phrase:
\* \b(what.*happening|current events)\b and \b(tell me.*joke|make me laugh)\b
GapAlternatives ==
    [ news |-> Gap({<<"what">>}, {"happening"}),
      joke |-> Gap({<<"tell", "me">>}, {"joke"}) ]

\* NLUEngine._get_intent_keywords
_get_intent_keywords ==
    [ weather |-> <<"weather", "temperature", "rain", "sunny", "cloudy">>,
      music |-> <<"play", "music", "song", "pause", "volume">>,
      time |-> <<"time", "clock", "hour", "minute">>,
      calendar |-> <<"calendar", "meeting", "appointment", "schedule">>,
      timer |-> <<"timer", "alarm", "remind", "countdown">>,
      calculator |-> <<"calculate", "math", "plus", "minus">>,
      system |-> <<"system", "computer", "cpu", "memory">>,
      web |-> <<"search", "google", "open", "website">>,
      email |-> <<"email", "mail", "message", "inbox">>,
      news |-> <<"news", "headlines", "breaking">>,
      wikipedia |-> <<"wikipedia", "wiki", "information">>,
      joke |-> <<"joke", "funny", "humor", "laugh">>,
      greeting |-> <<"hello", "hi", "hey", "morning">>,
      goodbye |-> <<"bye", "goodbye", "exit", "quit">>,
      help |-> <<"help", "assist", "support", "commands">> ]

\* does pattern number k of the intent match the processed input
IntentPatternMatches(intent, k, processed_input) ==
    \/ PatternMatches(intent_patterns[intent][k], processed_input)
    \/ /\ k = 2
       /\ intent \in DOMAIN GapAlternatives
       /\ PatternMatches(GapAlternatives[intent], processed_input)

\* the numbers of the patterns of the intent that match, from pattern k on
RECURSIVE MatchedFrom(_, _, _)
MatchedFrom(intent, k, processed_input) ==
    IF k > Len(intent_patterns[intent]) THEN <<>>
    ELSE (IF IntentPatternMatches(intent, k, processed_input) THEN <<k>> ELSE <<>>)
             \o MatchedFrom(intent, k + 1, processed_input)

\* the numbers of the patterns of the intent that match, in order
MatchedPatterns(intent, processed_input) == MatchedFrom(intent, 1, processed_input)

\* how many of the keywords are in the processed input
KeywordsFound(keywords, processed_input) ==
    Cardinality({ k \in 1..Len(keywords) : ContainsWord(processed_input, keywords[k]) })

\* 0.3 for each pattern matched, 0.2 more for several, 0.1 for each keyword found
Score(matched, found) == 3 * matched + (IF matched > 1 THEN 2 ELSE 0) + found

\* the confidence of one intent, in tenths, before it is capped
IntentScore(intent, processed_input) ==
    Score(Len(MatchedPatterns(intent, processed_input)),
          KeywordsFound(_get_intent_keywords[intent], processed_input))

\* list.sort(key=confidence, reverse=True): stable, so equal confidences keep
\* their order
RECURSIVE SortByConfidence(_)
SortByConfidence(intents) ==
    IF intents = <<>> THEN <<>>
    ELSE LET sorted == SortByConfidence(SubSeq(intents, 1, Len(intents) - 1))
             x == intents[Len(intents)]
             keep == Cardinality({ i \in 1..Len(sorted) : RatLeq(x.confidence, sorted[i].confidence) })
         IN  SubSeq(sorted, 1, keep) \o <<x>> \o SubSeq(sorted, keep + 1, Len(sorted))

\* if confidence > 0: intents.append(...) with the confidence capped at 1.0
IntentEntry(intent, confidence, matched_patterns) ==
    IF confidence > 0
    THEN << [ intent |-> intent,
              confidence |-> Tenths(IF confidence > 10 THEN 10 ELSE confidence),
              matched_patterns |-> matched_patterns ] >>
    ELSE <<>>

\* the entries of the intents from number k on, in the order of the dict
RECURSIVE IntentEntries(_, _)
IntentEntries(processed_input, k) ==
    IF k > Len(IntentNames) THEN <<>>
    ELSE IntentEntry(IntentNames[k], IntentScore(IntentNames[k], processed_input),
                     MatchedPatterns(IntentNames[k], processed_input))
             \o IntentEntries(processed_input, k + 1)

\* NLUEngine._classify_intents
_classify_intents(user_input) ==
    SortByConfidence(IntentEntries(_preprocess_input(user_input), 1))

----------------------------------------------------------------------------
(* NLUEngine: entity extraction.  The patterns are applied to the input as  *)
(* given, ignoring case; a value is the matched text, as a token sequence.  *)

\* [A-Z][a-z]+ at the start of the token w, followed by \b
NameHead(w) == AlphaHeadLen(w) >= 2 /\ BoundedAfter(w, AlphaHeadLen(w))

\* [A-Z][a-z]+ is all of the token w, so that \s+ can follow
NameToken(w) == IsAlpha(w) /\ Len(w) >= 2

\* [A-Z][a-z]+ at the end of the token w, with \b in front
NameTail(w) ==
    \E a \in 1..(Len(w) - 1) :
        /\ \A k \in a..Len(w) : IsLetter(Char(w, k))
        /\ BoundedBefore(w, a)

\* the token where ([A-Z][a-z]+(?:\s+[A-Z][a-z]+)*)\b, started at token j, ends:
\* the longest run of names, or 0 when there is none
RECURSIVE NamesEnd(_, _)
NamesEnd(u, j) ==
    IF j > Len(u) \/ AlphaHeadLen(u[j]) < 2 THEN 0
    ELSE IF NameToken(u[j]) /\ NamesEnd(u, j + 1) > 0 THEN NamesEnd(u, j + 1)
    ELSE IF NameHead(u[j]) THEN j
    ELSE 0

\* the tokens j..k of u, the last one cut to its leading letters
NamesValue(u, j, k) == SubSeq(u, j, k - 1) \o <<AlphaHead(u[k])>>

\* where the search goes on after a match that ended in the leading letters of
\* token k
AfterName(u, k) == IF AlphaHeadLen(u[k]) < Len(u[k]) THEN k ELSE k + 1

\* \b(?:in|at|for) at the end of the token w
PrepositionTail(w) ==
    \E prep \in {"in", "at", "for"} :
        EndsWith(Lower(w), prep) /\ BoundedBefore(w, Len(w) - Len(prep) + 1)

\* re.finditer(r'\b(?:in|at|for)\s+([A-Z][a-z]+(?:\s+[A-Z][a-z]+)*)\b'), from token i on
RECURSIVE LocationsFrom(_, _)
LocationsFrom(u, i) ==
    IF i >= Len(u) THEN <<>>
    ELSE IF PrepositionTail(u[i]) /\ NamesEnd(u, i + 1) > 0
    THEN LET k == NamesEnd(u, i + 1)
         IN  <<NamesValue(u, i + 1, k)>> \o LocationsFrom(u, AfterName(u, k))
    ELSE LocationsFrom(u, i + 1)

\* re.finditer(r'\b([A-Z][a-z]+\s+[A-Z][a-z]+)\b'), from token i on
RECURSIVE PersonsFrom(_, _)
PersonsFrom(u, i) ==
    IF i >= Len(u) THEN <<>>
    ELSE IF NameTail(u[i]) /\ NameHead(u[i + 1])
    THEN << <<WordTail(u[i]), AlphaHead(u[i + 1])>> >> \o PersonsFrom(u, AfterName(u, i + 1))
    ELSE PersonsFrom(u, i + 1)

\* the text a phrase matched at character a of token i
PhraseValue(u, i, a, phrase) ==
    LET k == Len(phrase) IN
    IF k = 1 THEN <<SubSeq(u[i], a, a + Len(phrase[1]) - 1)>>
    ELSE <<SubSeq(u[i], a, Len(u[i]))>> \o SubSeq(u, i + 1, i + k - 2)
             \o <<SubSeq(u[i + k - 1], 1, Len(phrase[k]))>>

\* the characters of token i where the phrase matches
StartsOf(lu, i, phrase) ==
    IF Len(phrase) = 1
    THEN { a \in Occurrences(lu[i], phrase[1]) :
             BoundedBefore(lu[i], a) /\ BoundedAfter(lu[i], a + Len(phrase[1]) - 1) }
    ELSE IF PhraseAt(lu, i, phrase) THEN {Len(lu[i]) - Len(phrase[1]) + 1}
    ELSE {}

\* the characters of token i where one of the phrases matches
PhraseStarts(lu, i, phrases) == UNION { StartsOf(lu, i, phrase) : phrase \in phrases }

\* the phrase that matches at character a of token i
PhraseOf(lu, i, a, phrases) == CHOOSE phrase \in phrases : a \in StartsOf(lu, i, phrase)

\* the elements of a set of numbers, ascending
RECURSIVE Ascending(_)
Ascending(S) ==
    IF S = {} THEN <<>> ELSE <<FirstIndex(S)>> \o Ascending(S \ {FirstIndex(S)})

\* re.finditer(r'\b(p1|p2|...)\b'): the matched texts, from token i on; lu is u in
\* lower case
RECURSIVE PhraseHitsFrom(_, _, _, _)
PhraseHitsFrom(u, lu, i, phrases) ==
    IF i > Len(u) THEN <<>>
    ELSE LET starts == Ascending(PhraseStarts(lu, i, phrases))
         IN  [n \in 1..Len(starts) |->
                 PhraseValue(u, i, starts[n], PhraseOf(lu, i, starts[n], phrases))]
                 \o PhraseHitsFrom(u, lu, i + 1, phrases)

PhraseHits(u, i, phrases) == PhraseHitsFrom(u, LowerAll(u), i, phrases)

\* \d{1,2}:\d{2} at character a of w: the position of its last character, or 0
ClockEnd(w, a) ==
    LET e == DigitsEnd(w, a)
        n == e - a + 1
    IN  IF /\ n \in {1, 2}
           /\ e + 3 <= Len(w)
           /\ Char(w, e + 1) = ":"
           /\ IsDigit(Char(w, e + 2)) /\ IsDigit(Char(w, e + 3))
        THEN e + 3 ELSE 0

\* [AaPp][Mm] at character a of w, followed by \b
MeridiemAt(w, a) ==
    /\ a + 1 <= Len(w)
    /\ IsIn(LowerChar(Char(w, a)), "ap")
    /\ LowerChar(Char(w, a + 1)) = "m"
    /\ BoundedAfter(w, a + 1)

\* re.finditer(r'\b(\d{1,2}:\d{2}(?:\s*[AaPp][Mm])?)\b'): the matches that start
\* in token i, at character a or later
RECURSIVE ClocksIn(_, _, _)
ClocksIn(u, i, a) ==
    LET w == u[i] IN
    IF a > Len(w) THEN <<>>
    ELSE IF ~(BoundedBefore(w, a) /\ ClockEnd(w, a) > 0) THEN ClocksIn(u, i, a + 1)
    ELSE LET e == ClockEnd(w, a)
         IN  IF MeridiemAt(w, e + 1)
             THEN << <<SubSeq(w, a, e + 2)>> >> \o ClocksIn(u, i, e + 3)
             ELSE IF e = Len(w) /\ i < Len(u) /\ MeridiemAt(u[i + 1], 1)
             THEN << <<SubSeq(w, a, e), SubSeq(u[i + 1], 1, 2)>> >>
             ELSE IF BoundedAfter(w, e)
             THEN << <<SubSeq(w, a, e)>> >> \o ClocksIn(u, i, e + 1)
             ELSE ClocksIn(u, i, a + 1)

RECURSIVE ClockHits(_, _)
ClockHits(u, i) == IF i > Len(u) THEN <<>> ELSE ClocksIn(u, i, 1) \o ClockHits(u, i + 1)

\* re.finditer(r'\b(\d+(?:\.\d+)?)\b') in one token, from character a on
RECURSIVE NumbersIn(_, _)
NumbersIn(w, a) ==
    IF a > Len(w) THEN <<>>
    ELSE IF ~(BoundedBefore(w, a) /\ IsDigit(Char(w, a))) THEN NumbersIn(w, a + 1)
    ELSE LET e == DigitsEnd(w, a)
             f == IF e + 2 <= Len(w) /\ Char(w, e + 1) = "." /\ IsDigit(Char(w, e + 2))
                  THEN DigitsEnd(w, e + 2) ELSE 0
         IN  IF f > 0 /\ BoundedAfter(w, f)
             THEN << <<SubSeq(w, a, f)>> >> \o NumbersIn(w, f + 1)
             ELSE IF BoundedAfter(w, e)
             THEN << <<SubSeq(w, a, e)>> >> \o NumbersIn(w, e + 1)
             ELSE NumbersIn(w, e + 1)

RECURSIVE NumberHits(_, _)
NumberHits(u, i) == IF i > Len(u) THEN <<>> ELSE NumbersIn(u[i], 1) \o NumberHits(u, i + 1)

DurationUnits == {"second", "minute", "hour", "day", "week", "month", "year"}

\* a unit ends at character q of w with \b behind, an s allowed in between
UnitEndsAt(w, q, plural) ==
    \/ BoundedAfter(w, q)
    \/ plural /\ q < Len(w) /\ Char(w, q + 1) = "s" /\ BoundedAfter(w, q + 1)

\* \s*(second|minute|...) follows character e of token i, then s? (when plural) and \b
UnitFollows(lu, i, e, plural) ==
    \E unit \in DurationUnits :
        IF e < Len(lu[i])
        THEN /\ (e + 1) \in Occurrences(lu[i], unit)
             /\ UnitEndsAt(lu[i], e + Len(unit), plural)
        ELSE /\ i < Len(lu)
             /\ StartsWith(lu[i + 1], unit)
             /\ UnitEndsAt(lu[i + 1], Len(unit), plural)

\* re.finditer(r'\b(\d+)\s*(second|...)s?\b'): group 1 of the matches that start in
\* token i
DurationsIn(u, i) ==
    LET lu == LowerAll(u)
        starts == Ascending({ a \in 1..Len(u[i]) :
                                /\ IsDigit(Char(u[i], a)) /\ BoundedBefore(u[i], a)
                                /\ UnitFollows(lu, i, DigitsEnd(u[i], a), TRUE) })
    IN  [n \in 1..Len(starts) |-> <<SubSeq(u[i], starts[n], DigitsEnd(u[i], starts[n]))>>]

RECURSIVE DurationHits(_, _)
DurationHits(u, i) == IF i > Len(u) THEN <<>> ELSE DurationsIn(u, i) \o DurationHits(u, i + 1)

\* the article (a|an|one) that starts at character a of token i, \b in front, with
\* a unit behind; "" when none
ArticleAt(lu, i, a) ==
    LET fits == { art \in {"a", "an", "one"} :
                    /\ a \in Occurrences(lu[i], art)
                    /\ BoundedBefore(lu[i], a)
                    /\ UnitFollows(lu, i, a + Len(art) - 1, FALSE) }
    IN  IF fits = {} THEN "" ELSE CHOOSE art \in fits : TRUE

\* re.finditer(r'\b(a|an|one)\s*(second|...)\b'): group 1 of the matches that start
\* in token i
SingleDurationsIn(u, i) ==
    LET lu == LowerAll(u)
        starts == Ascending({ a \in 1..Len(u[i]) : ArticleAt(lu, i, a) # "" })
    IN  [n \in 1..Len(starts) |->
            <<SubSeq(u[i], starts[n], starts[n] + Len(ArticleAt(lu, i, starts[n])) - 1)>>]

RECURSIVE SingleDurationHits(_, _)
SingleDurationHits(u, i) ==
    IF i > Len(u) THEN <<>> ELSE SingleDurationsIn(u, i) \o SingleDurationHits(u, i + 1)

\* \b(?:t1|t2|...) at the end of the token w
TriggerTail(w, triggers) ==
    \E t \in triggers : EndsWith(Lower(w), t) /\ BoundedBefore(w, Len(w) - Len(t) + 1)

\* the last token of the lazy group (.+?) that starts at token j: the first one
\* with one of the stop words starting the next token, else the last of the input
CaptureEnd(u, j, stops) ==
    LET ends == { k \in j..(Len(u) - 1) : \E stop \in stops : StartsWith(Lower(u[k + 1]), stop) }
    IN  IF ends = {} THEN Len(u) ELSE FirstIndex(ends)

\* re.finditer(r'\b(?:triggers)\s+(?:for\s+)?(.+?)(?:\s+(?:stops)|\s*$)'), the
\* (?:for\s+)? only when skipFor, from token i on
RECURSIVE Captures(_, _, _, _, _)
Captures(u, i, triggers, skipFor, stops) ==
    IF i >= Len(u) THEN <<>>
    ELSE IF ~TriggerTail(u[i], triggers) THEN Captures(u, i + 1, triggers, skipFor, stops)
    ELSE LET j == IF skipFor /\ Lower(u[i + 1]) = "for" /\ i + 2 <= Len(u) THEN i + 2 ELSE i + 1
             k == CaptureEnd(u, j, stops)
         IN  <<SubSeq(u, j, k)>> \o Captures(u, k + 1, triggers, skipFor, stops)

\* what self.nlp(user_input) returns: the named entities and the tokens spaCy
\* finds; NoDoc when no spaCy model is loaded (self.nlp is None)
NoDoc == [loaded |-> FALSE]

Doc(ents, tokens) == [loaded |-> TRUE, ents |-> ents, tokens |-> tokens]

\* NLUEngine._map_spacy_entity_type
_map_spacy_entity_type(spacy_label) ==
    CASE spacy_label = "PERSON" -> "person"
      [] spacy_label \in {"GPE", "LOC"} -> "location"
      [] spacy_label \in {"TIME", "DATE"} -> "time"
      [] spacy_label \in {"CARDINAL", "ORDINAL", "QUANTITY"} -> "number"
      [] OTHER -> None

city_names ==
    { <<"new", "york">>, <<"los", "angeles">>, <<"chicago">>, <<"houston">>, <<"phoenix">>,
      <<"philadelphia">>, <<"san", "antonio">>, <<"san", "diego">>, <<"dallas">>, <<"san", "jose">> }

\* the entity types in the order of the entity_patterns dict, and for each the
\* matches of its patterns, pattern by pattern
EntityTypes ==
    <<"location", "time", "duration", "number", "person", "music_query", "search_query">>

PatternHits(entity_type, u) ==
    CASE entity_type = "location" ->
             LocationsFrom(u, 1) \o PhraseHits(u, 1, city_names)
      [] entity_type = "time" ->
             ClockHits(u, 1)
                 \o PhraseHits(u, 1, Words({"morning", "afternoon", "evening", "night", "noon", "midnight"}))
                 \o PhraseHits(u, 1, {<<"today">>, <<"tomorrow">>, <<"yesterday">>,
                                      <<"next", "week">>, <<"last", "week">>})
      [] entity_type = "duration" -> DurationHits(u, 1) \o SingleDurationHits(u, 1)
      [] entity_type = "number" ->
             NumberHits(u, 1)
                 \o PhraseHits(u, 1, Words({"one", "two", "three", "four", "five",
                                            "six", "seven", "eight", "nine", "ten"}))
      [] entity_type = "person" -> PersonsFrom(u, 1)
      [] entity_type = "music_query" ->
             Captures(u, 1, {"play"}, FALSE, {"on", "by", "from"})
                 \o Captures(u, 1, {"song", "track", "music"}, FALSE, {"by"})
      [] entity_type = "search_query" ->
             Captures(u, 1, {"search"}, TRUE, {"on"})
                 \o Captures(u, 1, {"google"}, FALSE, {"for"})

\* entities[entity_type].append(entity) on a defaultdict(list)
AppendEntity(entities, entity_type, entity) ==
    DictSet(entities, entity_type,
            (IF HasKey(entities, entity_type) THEN entities[entity_type] ELSE <<>>) \o <<entity>>)

RECURSIVE AppendEntities(_, _, _)
AppendEntities(entities, entity_type, list) ==
    IF list = <<>> THEN entities
    ELSE AppendEntities(AppendEntity(entities, entity_type, Head(list)), entity_type, Tail(list))

\* the entities of the patterns: value and confidence (the character offsets
\* start and end, that nothing reads, are left out)
RECURSIVE PatternEntities(_, _)
PatternEntities(u, k) ==
    IF k = 0 THEN EmptyDict
    ELSE LET hits == PatternHits(EntityTypes[k], u)
         IN  AppendEntities(PatternEntities(u, k - 1), EntityTypes[k],
                            [n \in 1..Len(hits) |-> [value |-> hits[n], confidence |-> Tenths(8)]])

\* the entities spaCy adds, in the order of doc.ents
RECURSIVE SpacyEntities(_, _, _)
SpacyEntities(entities, ents, n) ==
    IF n > Len(ents) THEN entities
    ELSE LET spacy_type == _map_spacy_entity_type(ents[n].label_)
         IN  SpacyEntities(
                 IF spacy_type # None
                 THEN AppendEntity(entities, spacy_type,
                                   [ value |-> ents[n].text, confidence |-> Tenths(9),
                                     spacy_label |-> ents[n].label_ ])
                 ELSE entities,
                 ents, n + 1)

\* if self.nlp: the entities of doc.ents are added to those of the patterns
WithSpacyEntities(entities, doc) ==
    IF doc.loaded THEN SpacyEntities(entities, doc.ents, 1) ELSE entities

\* NLUEngine._extract_entities; doc is what spaCy makes of the input
_extract_entities(user_input, doc) ==
    WithSpacyEntities(PatternEntities(user_input, Len(EntityTypes)), doc)

----------------------------------------------------------------------------
(* The turns add_interaction is given *)

Turn(user_input, jarvis_response, command_type, entities) ==
    [ user_input |-> user_input, jarvis_response |-> jarvis_response,
      command_type |-> command_type, entities |-> entities ]

WeatherTurn == Turn(<<"what's", "the", "weather", "in", "Seattle">>, "sunny", "weather", <<"Seattle">>)

MusicTurn == Turn(<<"play", "some", "jazz", "music">>, "playing", "music", <<"jazz">>)

TimerTurn == Turn(<<"set", "a", "timer", "for", "5", "minutes">>, "timer set", "timer", <<>>)

StoreTurns == {WeatherTurn, MusicTurn}

NoSnapshot == [valid |-> FALSE]

\* no command is being handled
NoCommand == [pending |-> FALSE]

\* process_command(user_input) is under way
Command(user_input) == [pending |-> TRUE, user_input |-> user_input]

Snapshot(self) ==
    [ valid |-> TRUE,
      conversation_history |-> self.conversation_history,
      context_vars |-> self.context_vars,
      entities |-> self.entities ]

----------------------------------------------------------------------------
(* The utterances the recognizer delivers and what spaCy makes of a text *)

Utterances ==
    { <<"what", "about", "tomorrow">>,
      <<"how", "about", "there">>,
      <<"play", "another", "song">>,
      <<"play", "that", "next", "song">>,
      <<"what's", "the", "weather", "in", "Seattle">>,
      <<"weather", "tomorrow">>,
      <<"set", "a", "timer", "for", "5", "minutes">>,
      <<"banana">>,
      <<"nothing">>,
      <<>> }

\* the commands of a session with EnhancedCommands
CommandUtterances ==
    { <<"what's", "the", "weather", "in", "Seattle">>,
      <<"what", "about", "tomorrow">>,
      <<"set", "a", "timer", "for", "5", "minutes">>,
      <<"set", "a", "timer">>,
      <<"play", "this">>,
      <<"banana">>,
      <<"nothing">> }

\* the context variables the turns leave behind
TurnVars ==
    LET store(turn) == add_interaction(ConversationContext(1, ContextTimeout), turn.user_input,
                                       turn.jarvis_response, turn.command_type, turn.entities, 0)
    IN  { store(turn).context_vars : turn \in {WeatherTurn, MusicTurn, TimerTurn} } \cup {EmptyDict}

\* the texts resolve_follow_up makes of the utterances
Rewrites ==
    { ResolvedInput([referenced_topic |-> topic, context_vars |-> cv], u) :
        topic \in {"weather", "music"}, cv \in TurnVars, u \in Utterances }

\* spaCy is not loaded, or finds a place, a verb with its object, a subject and a modifier
SpacyDoc ==
    Doc(<< [label_ |-> "GPE", text |-> <<"Seattle">>], [label_ |-> "LANGUAGE", text |-> <<"English">>] >>,
        << [text |-> "you", dep_ |-> "nsubj", pos_ |-> "PRON"],
           [text |-> "play", dep_ |-> "ROOT", pos_ |-> "VERB"],
           [text |-> "next", dep_ |-> "amod", pos_ |-> "ADJ"],
           [text |-> "song", dep_ |-> "dobj", pos_ |-> "NOUN"] >>)

Docs == {NoDoc, SpacyDoc}

----------------------------------------------------------------------------
(* NLUEngine: structure, ambiguity, confidence, analyze_input *)

question_patterns ==
    << <<"what", {"what"}>>, <<"how", {"how"}>>, <<"when", {"when"}>>, <<"where", {"where"}>>,
       <<"who", {"who"}>>, <<"why", {"why"}>>, <<"which", {"which"}>>,
       <<"yes_no", {"is", "are", "can", "could", "will", "would", "do", "does", "did"}>> >>

\* NLUEngine._identify_question_type
_identify_question_type(user_input) ==
    LET hits == { k \in 1..Len(question_patterns) :
                    Matches(user_input, Words(question_patterns[k][2])) }
    IN  IF hits = {} THEN None ELSE question_patterns[FirstIndex(hits)][1]

\* the loop of _parse_command_structure over the tokens of the doc, from token n on
RECURSIVE ParseTokens(_, _, _)
ParseTokens(structure, tokens, n) ==
    IF n > Len(tokens) THEN structure
    ELSE LET token == tokens[n]
         IN  ParseTokens(
                 IF token.dep_ = "nsubj" THEN [structure EXCEPT !.subject = token.text]
                 ELSE IF token.pos_ = "VERB" /\ structure.verb = None
                 THEN [structure EXCEPT !.verb = token.text]
                 ELSE IF token.dep_ = "dobj" THEN [structure EXCEPT !.object = token.text]
                 ELSE IF token.dep_ \in {"amod", "advmod"}
                 THEN [structure EXCEPT !.modifiers = @ \o <<token.text>>]
                 ELSE structure,
                 tokens, n + 1)

\* NLUEngine._parse_command_structure
_parse_command_structure(user_input, doc) ==
    LET structure == [ subject |-> None, verb |-> None, object |-> None, modifiers |-> <<>>,
                       question_type |-> _identify_question_type(user_input) ]
    IN  IF doc.loaded THEN ParseTokens(structure, doc.tokens, 1) ELSE structure

ambiguous_pronouns == <<"it", "that", "this", "there", "here">>

\* the pronouns of the list found in the input, in the order of the list
RECURSIVE AmbiguousTerms(_, _)
AmbiguousTerms(user_input, k) ==
    IF k > Len(ambiguous_pronouns) THEN <<>>
    ELSE (IF Matches(user_input, {<<ambiguous_pronouns[k]>>}) THEN <<ambiguous_pronouns[k]>> ELSE <<>>)
             \o AmbiguousTerms(user_input, k + 1)

\* len(intents) > 1 and intents[0]['confidence'] - intents[1]['confidence'] < 0.3
MultipleIntents(intents) ==
    /\ Len(intents) > 1
    /\ RatLess(RatSub(intents[1].confidence, intents[2].confidence), Tenths(3))

\* the ambiguity dict of the pronouns found and the intents classified
Ambiguity(terms, intents) ==
    [ has_ambiguity |-> terms # <<>> \/ MultipleIntents(intents),
      ambiguous_terms |-> terms,
      multiple_intents |-> MultipleIntents(intents),
      unclear_entities |-> <<>> ]

\* NLUEngine._detect_ambiguity
_detect_ambiguity(user_input) ==
    Ambiguity(AmbiguousTerms(user_input, 1), _classify_intents(user_input))

context_indicators ==
    Words({"it", "that", "this", "there", "here"})
        \cup {<<"also">>, <<"too">>, <<"as", "well">>}
        \cup Words({"more", "another", "different"})
        \cup Words({"tomorrow", "yesterday", "next", "last"})

\* NLUEngine._is_context_dependent
_is_context_dependent(user_input) == Matches(user_input, context_indicators)

\* the confidences of all the entities of the dict, as a bag: sum and count
RECURSIVE SumConfidence(_)
SumConfidence(list) ==
    IF list = <<>> THEN Tenths(0) ELSE RatAdd(Head(list).confidence, SumConfidence(Tail(list)))

RECURSIVE EntityConfidence(_, _)
EntityConfidence(entities, types) ==
    IF types = {} THEN Tenths(0)
    ELSE LET t == CHOOSE x \in types : TRUE
         IN  RatAdd(SumConfidence(entities[t]), EntityConfidence(entities, types \ {t}))

RECURSIVE EntityCount(_, _)
EntityCount(entities, types) ==
    IF types = {} THEN 0
    ELSE LET t == CHOOSE x \in types : TRUE
         IN  Len(entities[t]) + EntityCount(entities, types \ {t})

\* mutant: the penalty for ambiguity is left out
ConfidenceNoPenalty(confidence, has_ambiguity) == confidence

\* if has_ambiguity: confidence *= 0.8
Penalize(confidence, has_ambiguity) ==
    IF has_ambiguity THEN RatMul(confidence, Tenths(8)) ELSE confidence

\* mutant: the confidence is that of the top intent alone
ConfidenceOfIntentAlone(analysis) ==
    RatMin(Penalize(IF analysis.intents # <<>>
                    THEN RatMul(analysis.intents[1].confidence, Tenths(4)) ELSE Tenths(0),
                    analysis.ambiguity.has_ambiguity),
           Tenths(10))

\* NLUEngine._calculate_confidence
_calculate_confidence(analysis) ==
    LET intent == IF analysis.intents # <<>>
                  THEN RatMul(analysis.intents[1].confidence, Tenths(4)) ELSE Tenths(0)
        entity_count == EntityCount(analysis.entities, DOMAIN analysis.entities)
        entity == IF entity_count > 0
                  THEN RatMul(RatDiv(EntityConfidence(analysis.entities, DOMAIN analysis.entities),
                                     entity_count), Tenths(3))
                  ELSE Tenths(0)
        structure == analysis.command_structure
        verb == IF structure.verb # None /\ structure.verb # "" THEN Tenths(2) ELSE Tenths(0)
        object == IF structure.object # None /\ structure.object # "" THEN Tenths(1) ELSE Tenths(0)
        confidence == RatAdd(RatAdd(intent, entity), RatAdd(verb, object))
    IN  RatMin(Penalize(confidence, analysis.ambiguity.has_ambiguity), Tenths(10))

\* dict.get(key): None for a missing key
Get(d, key) == IF HasKey(d, key) THEN d[key] ELSE None

\* a string Python takes for true: neither None nor empty
Truthy(v) == v # None /\ v # ""

\* var_name.replace('last_', '')
EntityTypeOf(var_name) == ReplaceToken(var_name, "last_", <<"">>)[1]

\* the loop of _resolve_with_context over the items of context_vars
RECURSIVE AddContextVars(_, _, _)
AddContextVars(entities, context_vars, names) ==
    IF names = {} THEN entities
    ELSE LET var_name == CHOOSE x \in names : TRUE
         IN  AddContextVars(
                 IF StartsWith(var_name, "last_")
                 THEN AppendEntity(entities, EntityTypeOf(var_name),
                                   [ value |-> context_vars[var_name], confidence |-> Tenths(7),
                                     source |-> "context" ])
                 ELSE entities,
                 context_vars, names \ {var_name})

\* NLUEngine._resolve_with_context
_resolve_with_context(analysis, ctx) ==
    IF ctx = EmptyDict THEN analysis
    ELSE LET refers == /\ analysis.ambiguity.ambiguous_terms # <<>>
                       /\ Truthy(Get(ctx, "referenced_topic"))
             resolved == IF refers
                         THEN ("resolved_intent" :> ctx.referenced_topic)
                                  @@ [analysis EXCEPT !.confidence = RatAdd(@, Tenths(2))]
                         ELSE analysis
         IN  IF HasKey(ctx, "context_vars") /\ ctx.context_vars # EmptyDict
             THEN [resolved EXCEPT !.entities =
                       AddContextVars(@, ctx.context_vars, DOMAIN ctx.context_vars)]
             ELSE resolved

\* the analysis analyze_input builds before it looks at the context; doc is what
\* spaCy makes of the input
\* analysis['confidence'] = self._calculate_confidence(analysis)
WithConfidence(analysis) ==
    [analysis EXCEPT !.confidence = _calculate_confidence(analysis)]

Scored(user_input, doc) ==
    WithConfidence([ original_input |-> user_input,
                     processed_input |-> _preprocess_input(user_input),
                     intents |-> _classify_intents(user_input),
                     entities |-> _extract_entities(user_input, doc),
                     command_structure |-> _parse_command_structure(user_input, doc),
                     confidence |-> Tenths(0),
                     ambiguity |-> _detect_ambiguity(user_input),
                     context_dependent |-> _is_context_dependent(user_input) ])

\* Scored for the texts of the model, evaluated once (@@ makes the table explicit)
ScoredTexts ==
    [ x \in (Utterances \cup CommandUtterances \cup Rewrites \cup {<<>>}) \X Docs |->
          Scored(x[1], x[2]) ] @@ EmptyDict

\* Scored, looked up in the table where the table has the text
ScoredOnce(table, user_input, doc) ==
    IF <<user_input, doc>> \in DOMAIN table THEN table[<<user_input, doc>>]
    ELSE Scored(user_input, doc)

\* if context and analysis['context_dependent']:
\*     analysis = self._resolve_with_context(analysis, context)
WithContext(scored, ctx) ==
    IF ctx # EmptyDict /\ scored.context_dependent
    THEN _resolve_with_context(scored, ctx)
    ELSE scored

\* NLUEngine.analyze_input; ctx, the context, is EmptyDict when none is given
analyze_input(user_input, ctx, doc) ==
    WithContext(ScoredOnce(ScoredTexts, user_input, doc), ctx)

----------------------------------------------------------------------------
(* NLUEngine: generate_command *)

\* the parameters of the command templates; the other intents have no template
command_templates ==
    [ weather |-> [base_command |-> "weather", parameters |-> <<"location", "time">>],
      music |-> [base_command |-> "music", parameters |-> <<"action", "query">>],
      timer |-> [base_command |-> "timer", parameters |-> <<"duration", "action">>] ]

\* any(word in user_input for word in words)
AnyWord(user_input, words) == \E word \in words : ContainsWord(user_input, word)

\* command['parameters'][param] = analysis['entities'][param][0]['value'], for the
\* parameters of the template that are entity types of the analysis
RECURSIVE TemplateParameters(_, _, _)
TemplateParameters(parameters, entities, k) ==
    IF k = 0 THEN EmptyDict
    ELSE LET rest == TemplateParameters(parameters, entities, k - 1)
             param == parameters[k]
         IN  IF HasKey(entities, param) THEN DictSet(rest, param, entities[param][1].value)
             ELSE rest

\* command[key][name] = value
SetParameter(command, name, value) ==
    [command EXCEPT !.parameters = DictSet(@, name, value)]

\* NLUEngine._generate_music_command
_generate_music_command(command, analysis) ==
    LET user_input == LowerAll(analysis.original_input) IN
    IF AnyWord(user_input, {"play", "start"})
    THEN LET c == ("action" :> "play") @@ command
         IN  IF HasKey(analysis.entities, "music_query")
             THEN SetParameter(c, "query", analysis.entities["music_query"][1].value)
             ELSE c
    ELSE IF AnyWord(user_input, {"pause", "stop"}) THEN ("action" :> "pause") @@ command
    ELSE IF AnyWord(user_input, {"resume", "continue"}) THEN ("action" :> "resume") @@ command
    ELSE IF AnyWord(user_input, {"next", "skip"}) THEN ("action" :> "next") @@ command
    ELSE IF AnyWord(user_input, {"previous", "back"}) THEN ("action" :> "previous") @@ command
    ELSE command

\* NLUEngine._generate_weather_command
_generate_weather_command(command, analysis) ==
    LET user_input == LowerAll(analysis.original_input)
        c == ("type" :> (IF AnyWord(user_input, {"tomorrow", "forecast", "next"})
                         THEN "forecast" ELSE "current")) @@ command
    IN  IF HasKey(analysis.entities, "location")
        THEN SetParameter(c, "location", analysis.entities["location"][1].value)
        ELSE c

\* NLUEngine._generate_timer_command
_generate_timer_command(command, analysis) ==
    LET user_input == LowerAll(analysis.original_input) IN
    IF AnyWord(user_input, {"set", "start", "create"})
    THEN LET c == ("action" :> "set") @@ command
         IN  IF HasKey(analysis.entities, "duration")
             THEN SetParameter(c, "duration", analysis.entities["duration"][1].value)
             ELSE c
    ELSE IF AnyWord(user_input, {"cancel", "stop", "delete"}) THEN ("action" :> "cancel") @@ command
    ELSE IF AnyWord(user_input, {"check", "status"}) THEN ("action" :> "check") @@ command
    ELSE command

\* NLUEngine.generate_command (the command's raw_analysis, the analysis itself,
\* is the argument and not repeated in the result)
generate_command(analysis) ==
    IF analysis.intents = <<>> THEN [command |-> None, error |-> "No intent detected"]
    ELSE LET intent_name == analysis.intents[1].intent
             command == [ intent |-> intent_name,
                          confidence |-> analysis.confidence,
                          parameters |->
                              IF HasKey(command_templates, intent_name)
                              THEN TemplateParameters(command_templates[intent_name].parameters,
                                                      analysis.entities,
                                                      Len(command_templates[intent_name].parameters))
                              ELSE EmptyDict ]
         IN  CASE intent_name = "music" -> _generate_music_command(command, analysis)
               [] intent_name = "weather" -> _generate_weather_command(command, analysis)
               [] intent_name = "timer" -> _generate_timer_command(command, analysis)
               [] OTHER -> command

----------------------------------------------------------------------------
(* IntentResolver *)

\* context.get('context_vars', {}).get(name), when it is not empty
ContextVar(ctx, name) ==
    IF HasKey(ctx, "context_vars") /\ HasKey(ctx.context_vars, name)
           /\ ctx.context_vars[name] # <<>>
    THEN ctx.context_vars[name] ELSE <<>>

\* function_call['parameters'][name] = value, when there is a value
WithParameter(function_call, name, value) ==
    IF value # <<>> THEN [function_call EXCEPT !.parameters = DictSet(@, name, value)]
    ELSE function_call

\* IntentResolver._resolve_weather_command
_resolve_weather_command(command, analysis, ctx) ==
    LET location == IF HasKey(command.parameters, "location") THEN command.parameters["location"]
                    ELSE ContextVar(ctx, "last_location")
        function_call == [ function |-> "weather",
                           method |-> IF Get(command, "type") = "forecast"
                                      THEN "get_forecast" ELSE "get_weather",
                           parameters |-> EmptyDict ]
    IN  WithParameter(function_call, "location", location)

\* IntentResolver._resolve_music_command
_resolve_music_command(command, analysis, ctx) ==
    LET action == IF HasKey(command, "action") THEN command.action ELSE "play"
        function_call == [ function |-> "music", method |-> action \o "_music",
                           parameters |-> EmptyDict ]
        query == IF HasKey(command.parameters, "query") THEN command.parameters["query"]
                 ELSE ContextVar(ctx, "last_music_query")
    IN  IF action # "play" THEN function_call
        ELSE IF query # <<>> THEN WithParameter(function_call, "query", query)
        ELSE WithParameter(function_call, "query", PlayQuery(analysis.original_input))

\* IntentResolver._resolve_timer_command
_resolve_timer_command(command, analysis, ctx) ==
    LET action == IF HasKey(command, "action") THEN command.action ELSE "set"
        function_call == [ function |-> "timer", method |-> action \o "_timer",
                           parameters |-> EmptyDict ]
        duration == IF HasKey(command.parameters, "duration") THEN command.parameters["duration"]
                    ELSE TimerDuration(analysis.original_input)
    IN  IF action # "set" THEN function_call
        ELSE WithParameter(function_call, "duration", duration)

\* what (\d+\s*[\+\-\*\/]\s*\d+) matches from the run of digits that starts at
\* character a of token i; <<>> when it does not match there
ExpressionAt(u, i, a) ==
    LET w == u[i]
        e == DigitsEnd(w, a)
    IN  IF e < Len(w) THEN
            IF ~IsIn(Char(w, e + 1), Operators) THEN <<>>
            ELSE IF e + 1 < Len(w) THEN
                IF IsDigit(Char(w, e + 2)) THEN <<SubSeq(w, a, DigitsEnd(w, e + 2))>> ELSE <<>>
            ELSE IF i < Len(u) /\ Len(u[i + 1]) > 0 /\ IsDigit(Char(u[i + 1], 1))
            THEN <<SubSeq(w, a, e + 1), SubSeq(u[i + 1], 1, DigitsEnd(u[i + 1], 1))>>
            ELSE <<>>
        ELSE IF i < Len(u) /\ Len(u[i + 1]) > 0 /\ IsIn(Char(u[i + 1], 1), Operators) THEN
            IF Len(u[i + 1]) > 1 THEN
                IF IsDigit(Char(u[i + 1], 2))
                THEN <<SubSeq(w, a, e), SubSeq(u[i + 1], 1, DigitsEnd(u[i + 1], 2))>>
                ELSE <<>>
            ELSE IF i + 2 <= Len(u) /\ Len(u[i + 2]) > 0 /\ IsDigit(Char(u[i + 2], 1))
            THEN <<SubSeq(w, a, e), u[i + 1], SubSeq(u[i + 2], 1, DigitsEnd(u[i + 2], 1))>>
            ELSE <<>>
        ELSE <<>>

\* the characters of token i where a run of digits starts that begins an expression
ExpressionStarts(u, i) ==
    { a \in 1..Len(u[i]) :
        /\ IsDigit(Char(u[i], a))
        /\ (a = 1 \/ ~IsDigit(Char(u[i], a - 1)))
        /\ ExpressionAt(u, i, a) # <<>> }

\* the group of re.search(r'(\d+\s*[\+\-\*\/]\s*\d+)', text); <<>> when no match
Expression(text) ==
    LET i == FirstIndex({k \in 1..Len(text) : ExpressionStarts(text, k) # {}})
    IN  IF i = 0 THEN <<>> ELSE ExpressionAt(text, i, FirstIndex(ExpressionStarts(text, i)))

word_to_num ==
    [ zero |-> "0", one |-> "1", two |-> "2", three |-> "3", four |-> "4", five |-> "5",
      six |-> "6", seven |-> "7", eight |-> "8", nine |-> "9", ten |-> "10", eleven |-> "11",
      twelve |-> "12", thirteen |-> "13", fourteen |-> "14", fifteen |-> "15",
      sixteen |-> "16", seventeen |-> "17", eighteen |-> "18", nineteen |-> "19",
      twenty |-> "20" ]

\* the operator words the pattern of _extract_math_from_words knows
word_to_op ==
    [ plus |-> "+", add |-> "+", minus |-> "-", subtract |-> "-", times |-> "*",
      multiply |-> "*", divide |-> "/" ]

\* IntentResolver._extract_math_from_words; <<>> for None
_extract_math_from_words(text) ==
    LET text_lower == LowerAll(text)
        i == FirstIndex({ k \in 1..(Len(text_lower) - 2) :
                            /\ WordTailLen(text_lower[k]) > 0
                            /\ text_lower[k + 1] \in DOMAIN word_to_op
                            /\ WordHeadLen(text_lower[k + 2]) > 0 })
    IN  IF i = 0 THEN <<>>
        ELSE LET num1_word == WordTail(text_lower[i])
                 num2_word == WordHead(text_lower[i + 2])
                 num1 == IF HasKey(word_to_num, num1_word) THEN word_to_num[num1_word] ELSE num1_word
                 num2 == IF HasKey(word_to_num, num2_word) THEN word_to_num[num2_word] ELSE num2_word
             IN  IF IsDigits(num1) /\ IsDigits(num2)
                 THEN <<num1, word_to_op[text_lower[i + 1]], num2>>
                 ELSE <<>>

\* IntentResolver._resolve_calculator_command
_resolve_calculator_command(command, analysis, ctx) ==
    LET function_call == [function |-> "calculator", method |-> "calculate", parameters |-> EmptyDict]
    IN  IF Expression(analysis.original_input) # <<>>
        THEN WithParameter(function_call, "expression", Expression(analysis.original_input))
        ELSE WithParameter(function_call, "expression", _extract_math_from_words(analysis.original_input))

\* the group of re.search(r'(?:p1|p2|...)\s+(?:for\s+)?(.+)', text, re.IGNORECASE),
\* stripped, the (?:for\s+)? only when skipFor; <<>> when there is no match
RestAfter(text, phrases, skipFor) ==
    LET lu == LowerAll(text)
        ends(i) == { i + Len(phrase) - 1 : phrase \in
                       { ph \in phrases :
                           /\ i + Len(ph) <= Len(lu)
                           /\ EndsWith(lu[i], ph[1])
                           /\ \A m \in 2..Len(ph) : lu[i + m - 1] = ph[m] } }
        i == FirstIndex({ k \in 1..Len(lu) : ends(k) # {} })
    IN  IF i = 0 THEN <<>>
        ELSE LET j == FirstIndex(ends(i)) + 1
             IN  IF skipFor /\ lu[j] = "for" /\ j < Len(lu)
                 THEN SubSeq(text, j + 1, Len(text))
                 ELSE SubSeq(text, j, Len(text))

\* IntentResolver._resolve_web_command
_resolve_web_command(command, analysis, ctx) ==
    LET function_call == [function |-> "web", method |-> "search", parameters |-> EmptyDict]
    IN  IF HasKey(analysis.entities, "search_query")
        THEN WithParameter(function_call, "query", analysis.entities["search_query"][1].value)
        ELSE WithParameter(function_call, "query",
                           RestAfter(analysis.original_input, {<<"search">>, <<"google">>}, TRUE))

topic_patterns ==
    << {<<"tell", "me", "about">>, <<"what", "is">>, <<"information", "about">>},
       {<<"wikipedia">>},
       {<<"wiki">>} >>

\* IntentResolver._resolve_wikipedia_command
_resolve_wikipedia_command(command, analysis, ctx) ==
    LET function_call == [function |-> "wikipedia", method |-> "search", parameters |-> EmptyDict]
        hits == { k \in 1..Len(topic_patterns) :
                    RestAfter(analysis.original_input, topic_patterns[k], FALSE) # <<>> }
    IN  IF hits = {} THEN function_call
        ELSE WithParameter(function_call, "topic",
                 RestAfter(analysis.original_input, topic_patterns[FirstIndex(hits)], FALSE))

\* the resolvers that return a fixed call: _resolve_time_command,
\* _resolve_calendar_command, _resolve_system_command, _resolve_email_command,
\* _resolve_news_command, _resolve_joke_command, _resolve_greeting_command,
\* _resolve_goodbye_command, _resolve_help_command
FixedCalls ==
    [ time |-> "get_current_time", calendar |-> "get_events", system |-> "get_system_info",
      email |-> "check_email", news |-> "get_headlines", joke |-> "tell_joke",
      greeting |-> "respond_greeting", goodbye |-> "respond_goodbye", help |-> "show_help" ]

\* the intents self.command_mappings has a resolver for
command_mappings ==
    { "weather", "music", "timer", "calculator", "time", "calendar", "system", "web",
      "email", "news", "wikipedia", "joke", "greeting", "goodbye", "help" }

\* resolver(command, analysis, context) for the resolver of the intent
Resolver(intent, command, analysis, ctx) ==
    CASE intent = "weather" -> _resolve_weather_command(command, analysis, ctx)
      [] intent = "music" -> _resolve_music_command(command, analysis, ctx)
      [] intent = "timer" -> _resolve_timer_command(command, analysis, ctx)
      [] intent = "calculator" -> _resolve_calculator_command(command, analysis, ctx)
      [] intent = "web" -> _resolve_web_command(command, analysis, ctx)
      [] intent = "wikipedia" -> _resolve_wikipedia_command(command, analysis, ctx)
      [] OTHER -> [function |-> intent, method |-> FixedCalls[intent], parameters |-> EmptyDict]

\* mutant: no intent, and no error reported either
NoFunctionNoError(message) == [function |-> None, error |-> None]

\* {'function': None, 'error': message}
NoFunction(message) == [function |-> None, error |-> message]

\* mutant: the resolver of the intent that context folding recorded runs, if any
ResolveByResolvedIntent(command, analysis, ctx) ==
    IF ~Truthy(Get(command, "intent")) THEN NoFunction("No intent detected")
    ELSE IF HasKey(analysis, "resolved_intent")
    THEN Resolver(analysis.resolved_intent, command, analysis, ctx)
    ELSE Resolver(command.intent, command, analysis, ctx)

\* IntentResolver._resolve_to_function_call (no resolver raises, so that the except
\* branch is never taken)
_resolve_to_function_call(command, analysis, ctx) ==
    IF ~Truthy(Get(command, "intent")) THEN NoFunction("No intent detected")
    ELSE IF command.intent \notin command_mappings
    THEN NoFunction("No resolver for intent: " \o command.intent)
    ELSE Resolver(command.intent, command, analysis, ctx)

\* mutant: the gap of the top two intents is not looked at
CloseIntentsIgnored(intents) == FALSE

\* len(intents) > 1 and intents[0]['confidence'] - intents[1]['confidence'] < 0.2
CloseIntents(intents) ==
    /\ Len(intents) > 1
    /\ RatLess(RatSub(intents[1].confidence, intents[2].confidence), Tenths(2))

\* IntentResolver._needs_clarification
_needs_clarification(analysis, ctx) ==
    \/ RatLess(analysis.confidence, Tenths(5))
    \/ CloseIntents(analysis.intents)
    \/ analysis.ambiguity.has_ambiguity /\ ~Truthy(Get(ctx, "referenced_topic"))

\* the response resolve_intent builds of the analysis of user_input in the context ctx
Response(user_input, analysis, ctx) ==
    [ original_input |-> user_input,
      resolved_command |-> _resolve_to_function_call(generate_command(analysis), analysis, ctx),
      analysis |-> analysis,
      context |-> ctx,
      confidence |-> analysis.confidence,
      needs_clarification |-> _needs_clarification(analysis, ctx) ]

\* analysis = self.nlu_engine.analyze_input(user_input, context), and what follows;
\* turn is the text and the context the follow-up step left
Analysed(turn, doc) ==
    Response(turn.user_input, analyze_input(turn.user_input, turn.context, doc), turn.context)

\* if follow_up_result['resolved']: user_input and context are replaced
Rewritten(follow_up_result, first, user_input) ==
    IF follow_up_result.resolved
    THEN [ user_input |-> follow_up_result.resolved_input,
           context |-> ("follow_up_resolved" :> TRUE) @@ first ]
    ELSE [ user_input |-> user_input, context |-> first ]

\* if context['is_follow_up']: the follow-up is resolved, the clock reading t2
FollowUp(self, first, user_input, t2) ==
    Rewritten(IF first.is_follow_up THEN resolve_follow_up(self, user_input, t2)
              ELSE [resolved |-> FALSE],
              first, user_input)

\* IntentResolver.resolve_intent on the Store self: the clock reads t when the
\* context is computed and t2 when the follow-up is resolved; doc is what spaCy
\* makes of the analysed text.  user_input is assigned the rewritten text before
\* the response is built, so that 'original_input': user_input reports that text
resolve_intent(self, user_input, t, t2, doc) ==
    Analysed(FollowUp(self, get_context_for_input(self, user_input, t), user_input, t2), doc)

----------------------------------------------------------------------------
(* EnhancedCommands: process_command and what it says and records *)

\* the words of a text joined by spaces
RECURSIVE JoinWords(_)
JoinWords(u) ==
    IF u = <<>> THEN ""
    ELSE IF Len(u) = 1 THEN u[1]
    ELSE u[1] \o " " \o JoinWords(Tail(u))

\* the values of the entities of the types from number k on that the patterns
\* (spacy = FALSE) or spaCy (spacy = TRUE) put first into the dict
RECURSIVE EntityValues(_, _, _)
EntityValues(entities, k, spacy) ==
    IF k > Len(EntityTypes) THEN <<>>
    ELSE (IF HasKey(entities, EntityTypes[k])
                 /\ HasKey(entities[EntityTypes[k]][1], "spacy_label") = spacy
          THEN [n \in 1..Len(entities[EntityTypes[k]]) |-> JoinWords(entities[EntityTypes[k]][n].value)]
          ELSE <<>>)
             \o EntityValues(entities, k + 1, spacy)

\* EnhancedCommands._extract_entities_for_context: the values in the order of the
\* dict, the types of the patterns before the types only spaCy found
_extract_entities_for_context(response) ==
    EntityValues(response.analysis.entities, 1, FALSE)
        \o EntityValues(response.analysis.entities, 1, TRUE)

\* elif len(analysis['intents']) > 1
PickBetween(intents) == Len(intents) > 1

\* the prompts of _handle_clarification_needed
BeMoreSpecific == "I'm not sure what you're asking for. Could you be more specific?"

DidYouWant(intent1, intent2) ==
    "Did you want me to help with " \o intent1 \o " or " \o intent2 \o "?"

NeedMoreContext == "I need more context. What specifically are you referring to?"

Rephrase == "Could you rephrase that? I want to make sure I understand correctly."

\* EnhancedCommands._handle_clarification_needed: what is spoken
_handle_clarification_needed(response) ==
    IF RatLess(response.analysis.confidence, Tenths(3)) THEN BeMoreSpecific
    ELSE IF PickBetween(response.analysis.intents)
    THEN DidYouWant(response.analysis.intents[1].intent, response.analysis.intents[2].intent)
    ELSE IF response.analysis.ambiguity.has_ambiguity THEN NeedMoreContext
    ELSE Rephrase

\* what the handlers do is not modelled: a handler returns a text, returns
\* nothing, or raises
HandlerOutcomes == {"done", "", "raises"}

\* EnhancedCommands._execute_command: every function the Resolver names has a
\* handler in function_mappings; an exception of the handler is caught here
_execute_command(resolved_command, outcome) ==
    IF outcome = "raises" THEN "Error in " \o resolved_command.function \o ": " ELSE outcome

\* mutant: the interaction is recorded whether or not clarification is needed
ClarifyNever(response) == FALSE

\* if result['needs_clarification']
Clarify(response) == response.needs_clarification

\* what process_command has done when it returns: the prompt spoken, the handler
\* that ran, the interactions handed to add_interaction_to_context
Clarified(response) ==
    [ returned |-> None, resolved |-> response,
      spoken |-> _handle_clarification_needed(response),
      handler |-> None, interactions |-> <<>> ]

NotUnderstood(response) ==
    [ returned |-> None, resolved |-> response,
      spoken |-> "I'm not sure what you want me to do. Can you try rephrasing that?",
      handler |-> None, interactions |-> <<>> ]

Executed(user_input, response, text, t) ==
    [ returned |-> IF response.resolved_command.function = "goodbye" THEN "exit" ELSE None,
      resolved |-> response,
      spoken |-> None,
      handler |-> response.resolved_command.function,
      interactions |-> << Interaction(t, user_input, IF text = "" THEN "Command executed" ELSE text,
                                      response.resolved_command.function,
                                      _extract_entities_for_context(response)) >> ]

\* EnhancedCommands.process_command on the response of resolve_intent; the handler
\* has the given outcome and add_interaction reads the clock at t
process_command(user_input, response, outcome, t) ==
    IF Clarify(response) THEN Clarified(response)
    ELSE IF response.resolved_command.function = None THEN NotUnderstood(response)
    ELSE Executed(user_input, response, _execute_command(response.resolved_command, outcome), t)

\* the Store after the interactions were added
RECURSIVE StoreAfter(_, _)
StoreAfter(self, interactions) ==
    IF interactions = <<>> THEN self
    ELSE StoreAfter(add_interaction(self, Head(interactions).user_input,
                                    Head(interactions).jarvis_response,
                                    Head(interactions).command_type,
                                    Head(interactions).entities,
                                    Head(interactions).timestamp),
                    Tail(interactions))

----------------------------------------------------------------------------
(* TimerService: the timers that are active.  The duration and the end time *)
(* of a timer are left out: a timer's thread may wake up at any moment.      *)

\* TimerService.__init__; tts holds what the engine was told to speak, in order
TimerService == [active_timers |-> EmptyDict, timer_counter |-> 0, tts |-> <<>>]

\* if not label: label = f"Timer {timer_id}"
LabelOrDefault(label, timer_id) ==
    IF Truthy(label) THEN label ELSE "Timer " \o ToString(timer_id)

\* message = f"Timer '{label}' has finished!"
Finished(label) == "Timer '" \o label \o "' has finished!"

\* the dict without the key
DictDel(d, key) == [x \in (DOMAIN d) \ {key} |-> d[x]]

\* start_timer from self.timer_counter += 1 to the entry stored in active_timers
Started(self, label) ==
    [self EXCEPT !.timer_counter = @ + 1,
                 !.active_timers =
                     DictSet(@, self.timer_counter + 1,
                             [ label |-> LabelOrDefault(label, self.timer_counter + 1),
                               thread |-> None ])]

\* the thread start_timer starts, _run_timer(timer_id, duration, label), asleep;
\* stopped and announced are history: stop_timer removed the timer of this thread,
\* and the number of times this thread spoke its message
TimerThread(timer_id, label) ==
    [ pc |-> "sleep", timer_id |-> timer_id, label |-> label, raised |-> None,
      stopped |-> FALSE, announced |-> 0 ]

\* mutant: the thread removes its timer without minding whether it is still there
PopOwnTimer(active_timers, timer_id) ==
    [active_timers |-> DictDel(active_timers, timer_id), raised |-> None]

\* del self.active_timers[timer_id] in _run_timer: the dict afterwards and the
\* exception raised
DelOwnTimer(active_timers, timer_id) ==
    IF HasKey(active_timers, timer_id)
    THEN [active_timers |-> DictDel(active_timers, timer_id), raised |-> None]
    ELSE [active_timers |-> active_timers, raised |-> "KeyError"]

\* the key number k of a dict whose keys were inserted in ascending order
KthKey(d, k) == CHOOSE x \in DOMAIN d : Cardinality({y \in DOMAIN d : y <= x}) = k

\* f"Stopped {count} timer{'s' if count != 1 else ''}."
StoppedCount(count) ==
    "Stopped " \o ToString(count) \o (IF count # 1 THEN " timers." ELSE " timer.")

\* the threads, those whose timer is among the timers marked as stopped
MarkStopped(ths, timer_ids) ==
    [i \in DOMAIN ths |->
        IF ths[i].timer_id \in timer_ids THEN [ths[i] EXCEPT !.stopped = TRUE] ELSE ths[i]]

----------------------------------------------------------------------------
(* The Store on its own: construction, its mutating operations, persistence *)

InitStore ==
    /\ \E m \in 1..MaxHistory : context = ConversationContext(m, ContextTimeout)
    /\ file = NoFile
    /\ now = 0
    /\ heard = NoCommand
    /\ threads = <<>>
    /\ call = [op |-> "__init__"]
    /\ result = None
    /\ added = <<>>
    /\ loaded = FALSE
    /\ saved = NoSnapshot
    /\ timer_service = TimerService

\* the process starts again: a fresh Store, the snapshot file still on disk
Construct(m) ==
    /\ context' = ConversationContext(m, ContextTimeout)
    /\ call' = [op |-> "__init__"]
    /\ result' = None
    /\ added' = <<>>
    /\ loaded' = FALSE
    /\ UNCHANGED <<timer_service, file, now, saved, heard, threads>>

\* a turn is recorded; the clock has moved on by the next call
AddInteraction(turn) ==
    /\ now < MaxTime
    /\ now' = now + 1
    /\ context' = add_interaction(context, turn.user_input, turn.jarvis_response,
                                  turn.command_type, turn.entities, now)
    /\ added' = Append(added, Interaction(now, turn.user_input, turn.jarvis_response,
                                          turn.command_type, turn.entities))
    /\ call' = [op |-> "add_interaction"]
    /\ result' = None
    /\ UNCHANGED <<timer_service, file, loaded, saved, heard, threads>>

ClearContext ==
    /\ context' = clear_context(context)
    /\ call' = [op |-> "clear_context"]
    /\ result' = None
    /\ UNCHANGED <<timer_service, file, now, added, loaded, saved, heard, threads>>

SaveContext(io) ==
    /\ file' = save_context(context, file, io)
    /\ saved' = IF io = "ok" THEN Snapshot(context)
                ELSE IF io = "write_fails" THEN NoSnapshot
                ELSE saved
    /\ call' = [op |-> "save_context"]
    /\ result' = Raised(SaveRaises(io))
    /\ UNCHANGED <<timer_service, context, now, added, loaded, heard, threads>>

LoadContext ==
    /\ context' = load_context(context, file)
    /\ loaded' = (loaded \/ file.kind = "json")
    /\ call' = [op |-> "load_context"]
    /\ result' = Raised(LoadRaises(file))
    /\ UNCHANGED <<timer_service, file, now, added, saved, heard, threads>>

\* the snapshot file is edited outside the program: the timestamp of its interaction
\* number i is no longer an ISO-8601 string
DamageInteraction(i) ==
    /\ LoadSucceeds(file)
    /\ i \in 1..Len(file.data.conversation_history)
    /\ file' = [file EXCEPT !.data.conversation_history[i].timestamp = NotIso]
    /\ call' = [op |-> "edit_file"]
    /\ result' = None
    /\ UNCHANGED <<timer_service, context, now, added, loaded, saved, heard, threads>>

\* the same for the timestamp of the entity e of the snapshot file
DamageEntity(e) ==
    /\ LoadSucceeds(file)
    /\ e \in DOMAIN file.data.entities
    /\ file' = [file EXCEPT !.data.entities[e] = NotIso]
    /\ call' = [op |-> "edit_file"]
    /\ result' = None
    /\ UNCHANGED <<timer_service, context, now, added, loaded, saved, heard, threads>>

NextStore ==
    \/ \E m \in 1..MaxHistory : Construct(m)
    \/ \E turn \in StoreTurns : AddInteraction(turn)
    \/ ClearContext
    \/ \E io \in IoOutcomes : SaveContext(io)
    \/ LoadContext
    \/ \E i \in 1..MaxHistory : DamageInteraction(i)
    \/ \E e \in {"Seattle", "jazz"} : DamageEntity(e)

SpecStore == InitStore /\ [][NextStore]_vars

----------------------------------------------------------------------------
(* The Resolver over its Store: a command is heard, the Resolver is asked    *)
(* about it, and the turn ends with or without an interaction recorded.      *)

\* mutant: a follow-up that was resolved is recorded as an interaction straight away
StoreRecordsResolved(self, user_input, response, t) ==
    IF HasKey(response.context, "follow_up_resolved")
    THEN add_interaction(self, user_input, "", response.context.referenced_topic, <<>>, t)
    ELSE self

\* the Store after resolve_intent: get_context_for_input and resolve_follow_up read
\* the Store and build new dicts and lists (context_vars is copied), the flag
\* follow_up_resolved is set on the dict returned, and add_interaction is not called
StoreAfterResolve(self, user_input, response, t) == self

\* contexts handed to analyze_input by a caller other than resolve_intent
GivenContexts ==
    { EmptyDict,
      [referenced_topic |-> "weather", context_vars |-> EmptyDict],
      [referenced_topic |-> "music", context_vars |-> [last_music_query |-> <<"some", "jazz", "music">>]] }

\* analyses and contexts _needs_clarification is given: the overall confidence, the
\* ranked intents, the ambiguity flag, the referenced topic
Ranked(intent, hundredths) == [intent |-> intent, confidence |-> Rat(hundredths, 100)]

RankedIntents ==
    { <<>>,
      << Ranked("weather", 80) >>,
      << Ranked("weather", 55), Ranked("calendar", 50) >>,
      << Ranked("weather", 80), Ranked("music", 60) >>,
      << Ranked("weather", 90), Ranked("music", 30), Ranked("timer", 20) >> }

Analyses ==
    { [ confidence |-> Rat(c, 100), intents |-> intents, ambiguity |-> [has_ambiguity |-> a] ] :
        c \in {49, 50, 90}, intents \in RankedIntents, a \in BOOLEAN }

TopicContexts == { EmptyDict, [referenced_topic |-> None], [referenced_topic |-> "weather"] }

InitResolver ==
    /\ context = ConversationContext(MaxHistory, ContextTimeout)
    /\ file = NoFile
    /\ now = 0
    /\ heard = NoCommand
    /\ threads = <<>>
    /\ call = [op |-> "__init__"]
    /\ result = None
    /\ added = <<>>
    /\ loaded = FALSE
    /\ saved = NoSnapshot
    /\ timer_service = TimerService

\* the listener hands over a command
Hear(user_input) ==
    /\ ~heard.pending
    /\ heard' = Command(user_input)
    /\ call' = [op |-> "process_command"]
    /\ result' = None
    /\ UNCHANGED <<timer_service, context, file, now, added, loaded, saved, threads>>

\* the command is waiting for the Resolver
Waiting == heard.pending /\ call.op = "process_command"

GetContextForInput ==
    /\ Waiting
    /\ result' = get_context_for_input(context, heard.user_input, now)
    /\ call' = [op |-> "get_context_for_input", user_input |-> heard.user_input, t |-> now]
    /\ UNCHANGED <<timer_service, context, file, now, heard, added, loaded, saved, threads>>

ResolveFollowUp ==
    /\ Waiting
    /\ result' = resolve_follow_up(context, heard.user_input, now)
    /\ call' = [op |-> "resolve_follow_up", user_input |-> heard.user_input, t |-> now]
    /\ UNCHANGED <<timer_service, context, file, now, heard, added, loaded, saved, threads>>

\* the clock may move on by d between the two readings of the context
ResolveIntent(doc, d) ==
    /\ Waiting
    /\ now + d <= MaxTime
    /\ now' = now + d
    /\ result' = resolve_intent(context, heard.user_input, now, now + d, doc)
    /\ context' = StoreAfterResolve(context, heard.user_input, result', now + d)
    /\ call' = [op |-> "resolve_intent", user_input |-> heard.user_input, t |-> now, doc |-> doc]
    /\ UNCHANGED <<timer_service, file, heard, added, loaded, saved, threads>>

AnalyzeInput(doc, ctx) ==
    /\ Waiting
    /\ result' = analyze_input(heard.user_input, ctx, doc)
    /\ call' = [op |-> "analyze_input", user_input |-> heard.user_input, ctx |-> ctx, doc |-> doc]
    /\ UNCHANGED <<timer_service, context, file, now, heard, added, loaded, saved, threads>>

NeedsClarification(analysis, ctx) ==
    /\ ~heard.pending
    /\ result' = _needs_clarification(analysis, ctx)
    /\ call' = [op |-> "_needs_clarification", analysis |-> analysis, ctx |-> ctx]
    /\ UNCHANGED <<timer_service, context, file, now, heard, added, loaded, saved, threads>>

\* EnhancedCommands.process_command from resolve_intent to its return: the clock
\* moves on by d between the two readings of resolve_intent, and by one more tick
\* while the handler runs
ProcessCommand(doc, d, outcome) ==
    /\ Waiting
    /\ now + d + 1 <= MaxTime
    /\ now' = now + d + 1
    /\ result' = process_command(heard.user_input,
                                 resolve_intent(context, heard.user_input, now, now + d, doc),
                                 outcome, now + d + 1)
    /\ context' = StoreAfter(context, result'.interactions)
    /\ heard' = NoCommand
    /\ call' = [op |-> "process_command", user_input |-> heard.user_input, t |-> now, doc |-> doc]
    /\ UNCHANGED <<timer_service, file, added, loaded, saved, threads>>

\* add_interaction_to_context: the turn ends with an interaction recorded
Record(turn) ==
    /\ heard.pending
    /\ now < MaxTime
    /\ now' = now + 1
    /\ context' = add_interaction(context, turn.user_input, turn.jarvis_response,
                                  turn.command_type, turn.entities, now)
    /\ heard' = NoCommand
    /\ call' = [op |-> "add_interaction"]
    /\ result' = None
    /\ UNCHANGED <<timer_service, file, added, loaded, saved, threads>>

\* the turn ends with nothing recorded
Dismiss ==
    /\ heard.pending
    /\ heard' = NoCommand
    /\ call' = [op |-> "return"]
    /\ result' = None
    /\ UNCHANGED <<timer_service, context, file, now, added, loaded, saved, threads>>

\* time passes between two commands
Tick ==
    /\ ~heard.pending
    /\ now < MaxTime
    /\ now' = now + 1
    /\ UNCHANGED <<timer_service, context, file, heard, call, result, added, loaded, saved, threads>>

Forget ==
    /\ ~heard.pending
    /\ context' = clear_context(context)
    /\ call' = [op |-> "clear_context"]
    /\ result' = None
    /\ UNCHANGED <<timer_service, file, now, heard, added, loaded, saved, threads>>

NextResolver ==
    \/ \E user_input \in Utterances : Hear(user_input)
    \/ GetContextForInput
    \/ ResolveFollowUp
    \/ \E doc \in Docs, d \in {0, 1} : ResolveIntent(doc, d)
    \/ \E doc \in Docs, ctx \in GivenContexts : AnalyzeInput(doc, ctx)
    \/ \E analysis \in Analyses, ctx \in TopicContexts : NeedsClarification(analysis, ctx)
    \/ \E turn \in StoreTurns : Record(turn)
    \/ Dismiss
    \/ Tick
    \/ Forget

SpecResolver == InitResolver /\ [][NextResolver]_vars

\* the commands of a session handled one after the other by process_command
NextCommands ==
    \/ \E user_input \in CommandUtterances : Hear(user_input)
    \/ \E doc \in Docs, d \in {0, 1}, outcome \in HandlerOutcomes : ProcessCommand(doc, d, outcome)
    \/ Tick
    \/ Forget

SpecCommands == InitResolver /\ [][NextCommands]_vars

----------------------------------------------------------------------------
(* The context read twice: a caller asks get_context_for_input about one     *)
(* utterance, may change the dict it was given, and asks again, while the    *)
(* clock moves on.  Any other call on the Store ends the experiment.         *)

\* mutant: 'context_vars': self.context_vars, the dict of the Store itself
ReturnsContextVarsItself(self) == {"context_vars"}

\* the fields of the Store whose objects the Context returned shares with it: none,
\* context_vars being self.context_vars.copy() and every list and dict built anew
SharedWithStore(self) == {}

\* what a caller does to the context_vars of the Context it holds
Scribble(context_vars) == DictSet(context_vars, "last_location", <<"Mars">>)

\* the Context returned, and the same Context in the hands of the caller
Handed(returned) == [returned |-> returned, held |-> returned]

\* the utterances asked about twice
ReaderUtterances ==
    { <<"what", "about", "tomorrow">>, <<"play", "another", "song">>, <<"banana">> }

FirstCall(user_input) ==
    /\ ~heard.pending
    /\ result' = Handed(get_context_for_input(context, user_input, now))
    /\ call' = [op |-> "get_context_for_input", user_input |-> user_input, t |-> now, calls |-> 1]
    /\ UNCHANGED <<timer_service, context, file, now, heard, added, loaded, saved, threads>>

\* the caller writes to the dict it was given
MutateReturned ==
    /\ call.op = "get_context_for_input"
    /\ call.calls = 1
    /\ result' = [result EXCEPT !.held.context_vars = Scribble(@)]
    /\ context' = IF "context_vars" \in SharedWithStore(context)
                  THEN [context EXCEPT !.context_vars = Scribble(@)]
                  ELSE context
    /\ UNCHANGED <<timer_service, file, now, heard, call, added, loaded, saved, threads>>

SecondCall ==
    /\ call.op = "get_context_for_input"
    /\ call.calls = 1
    /\ result' = [ returned |-> result.returned, held |-> result.held,
                   again |-> get_context_for_input(context, call.user_input, now) ]
    /\ call' = [op |-> "get_context_for_input", user_input |-> call.user_input, t |-> call.t,
                t2 |-> now, calls |-> 2]
    /\ UNCHANGED <<timer_service, context, file, now, heard, added, loaded, saved, threads>>

NextReader ==
    \/ \E user_input \in ReaderUtterances : FirstCall(user_input)
    \/ MutateReturned
    \/ SecondCall
    \/ Tick
    \/ \E turn \in StoreTurns \cup {TimerTurn} : AddInteraction(turn)
    \/ ClearContext

SpecReader == InitResolver /\ [][NextReader]_vars

----------------------------------------------------------------------------
(* Turns of every kind recorded one after the other *)

\* turns that name a location, a piece of music, a duration, and turns that do not
VarTurns ==
    { WeatherTurn, MusicTurn, TimerTurn,
      Turn(<<"weather", "in", "Boston">>, "rainy", "weather", <<"Boston">>),
      Turn(<<"how's", "the", "weather">>, "sunny", "weather", <<>>),
      Turn(<<"hello">>, "hello", "greeting", <<>>),
      Turn(<<"play", "it", "in", "Paris", "for", "5", "minutes">>, "", None, <<>>) }

NextTurns ==
    \/ \E turn \in VarTurns : AddInteraction(turn)
    \/ ClearContext
    \/ Tick

SpecTurns == InitResolver /\ [][NextTurns]_vars

----------------------------------------------------------------------------
(* Two commands handled at the same time: jarvis.py starts a thread for each *)
(* command, and each thread runs add_interaction on the one Store, statement *)
(* by statement; nothing in add_interaction takes a lock.                    *)

\* a thread about to run add_interaction(turn)
Thread(turn) == [ pc |-> "interaction", turn |-> turn ]

At(i, pc) == i \in 1..Len(threads) /\ threads[i].pc = pc

Goto(i, pc) == threads' = [threads EXCEPT ![i].pc = pc]

InitThreads ==
    /\ \E m \in 1..MaxHistory : context = ConversationContext(m, ContextTimeout)
    /\ file = NoFile
    /\ now = 0
    /\ heard = NoCommand
    /\ threads = <<>>
    /\ call = [op |-> "__init__"]
    /\ result = None
    /\ added = <<>>
    /\ loaded = FALSE
    /\ saved = NoSnapshot
    /\ timer_service = TimerService

\* threading.Thread(target=..., args=(command,)).start()
Start(turn) ==
    /\ Len(threads) < MaxThreads
    /\ threads' = Append(threads, Thread(turn))
    /\ UNCHANGED <<timer_service, context, file, now, heard, call, result, added, loaded, saved>>

\* interaction = {'timestamp': datetime.now(), ...}
BuildInteraction(i) ==
    /\ At(i, "interaction")
    /\ LET turn == threads[i].turn
       IN  threads' = [threads EXCEPT ![i] =
               [ pc |-> "append", turn |-> turn,
                 interaction |-> Interaction(now, turn.user_input, turn.jarvis_response,
                                             turn.command_type, turn.entities) ]]
    /\ UNCHANGED <<timer_service, context, file, now, heard, call, result, added, loaded, saved>>

\* self.conversation_history.append(interaction)
AppendInteraction(i) ==
    /\ At(i, "append")
    /\ context' = [context EXCEPT !.conversation_history = Append(@, threads[i].interaction)]
    /\ Goto(i, "len")
    /\ UNCHANGED <<timer_service, file, now, heard, call, result, added, loaded, saved>>

\* if len(self.conversation_history) > self.max_history:
CompareLen(i) ==
    /\ At(i, "len")
    /\ IF Len(context.conversation_history) > context.max_history
       THEN Goto(i, "pop") ELSE Goto(i, "last_command_type")
    /\ UNCHANGED <<timer_service, context, file, now, heard, call, result, added, loaded, saved>>

\* self.conversation_history.pop(0)
PopOldest(i) ==
    /\ At(i, "pop")
    /\ context' = [context EXCEPT !.conversation_history = Tail(@)]
    /\ Goto(i, "last_command_type")
    /\ UNCHANGED <<timer_service, file, now, heard, call, result, added, loaded, saved>>

\* self.last_command_type = command_type
SetLastCommandType(i) ==
    /\ At(i, "last_command_type")
    /\ context' = [context EXCEPT !.last_command_type = threads[i].turn.command_type]
    /\ Goto(i, "last_response_time")
    /\ UNCHANGED <<timer_service, file, now, heard, call, result, added, loaded, saved>>

\* self.last_response_time = datetime.now()
SetLastResponseTime(i) ==
    /\ At(i, "last_response_time")
    /\ context' = [context EXCEPT !.last_response_time = now]
    /\ threads' = [threads EXCEPT ![i] = ("response_time" :> now) @@ [@ EXCEPT !.pc = "entities"]]
    /\ UNCHANGED <<timer_service, file, now, heard, call, result, added, loaded, saved>>

\* if entities: for entity in entities: self.entities[entity] = datetime.now()
SetEntities(i) ==
    /\ At(i, "entities")
    /\ context' = [context EXCEPT !.entities = StampEntities(@, threads[i].turn.entities, now)]
    /\ Goto(i, "context_vars")
    /\ UNCHANGED <<timer_service, file, now, heard, call, result, added, loaded, saved>>

\* self._update_context_vars(user_input, command_type)
UpdateContextVars(i) ==
    /\ At(i, "context_vars")
    /\ context' = [context EXCEPT !.context_vars =
                      _update_context_vars(context, threads[i].turn.user_input,
                                           threads[i].turn.command_type)]
    /\ Goto(i, "done")
    /\ UNCHANGED <<timer_service, file, now, heard, call, result, added, loaded, saved>>

NextThreads ==
    \/ \E turn \in StoreTurns : Start(turn)
    \/ \E i \in 1..MaxThreads : BuildInteraction(i)
    \/ \E i \in 1..MaxThreads : AppendInteraction(i)
    \/ \E i \in 1..MaxThreads : CompareLen(i)
    \/ \E i \in 1..MaxThreads : PopOldest(i)
    \/ \E i \in 1..MaxThreads : SetLastCommandType(i)
    \/ \E i \in 1..MaxThreads : SetLastResponseTime(i)
    \/ \E i \in 1..MaxThreads : SetEntities(i)
    \/ \E i \in 1..MaxThreads : UpdateContextVars(i)
    \/ Tick

SpecThreads == InitThreads /\ [][NextThreads]_vars

----------------------------------------------------------------------------
(* ContinuousListener: the wake word and the command of a recognized text.  *)
(* Here a text is one string, spaces included.                               *)

\* str.strip(), for the spaces the recognizer puts between words
RECURSIVE StripText(_)
StripText(text) ==
    IF text = "" THEN ""
    ELSE IF Char(text, 1) = " " THEN StripText(SubSeq(text, 2, Len(text)))
    ELSE IF Char(text, Len(text)) = " " THEN StripText(SubSeq(text, 1, Len(text) - 1))
    ELSE text

\* the number of the first wake word of the list, from number k on, that is in the
\* text, or 0: for wake_word in self.wake_words: if wake_word in text_lower: ... break
RECURSIVE FirstWakeWord(_, _, _)
FirstWakeWord(wake_words, text_lower, k) ==
    IF k > Len(wake_words) THEN 0
    ELSE IF Occurrences(text_lower, wake_words[k]) # {} THEN k
    ELSE FirstWakeWord(wake_words, text_lower, k + 1)

\* text_lower[command_start:].strip(), with command_start = text_lower.find(wake_word)
\* + len(wake_word); indices count from 1 here
CommandText(text_lower, wake_word) ==
    StripText(SubSeq(text_lower, FirstIndex(Occurrences(text_lower, wake_word)) + Len(wake_word),
                     Len(text_lower)))

\* mutant: the empty command text is returned as it is
CommandAsItIs(command_text, cleaned) == IF command_text = "" THEN "" ELSE cleaned

\* if not command_text: return wake_word_found, None; else the cleaned command
CommandOrNone(command_text, cleaned) == IF command_text = "" THEN None ELSE cleaned

\* what is returned once a wake word was found (an empty wake word counts as not found)
Extracted(text_lower, wake_word, cleaned) ==
    IF wake_word = "" THEN [wake_word |-> None, command |-> None]
    ELSE [ wake_word |-> wake_word,
           command |-> CommandOrNone(CommandText(text_lower, wake_word), cleaned) ]

\* the wake word with number k of the list, k = 0 standing for none found
Found(text_lower, wake_words, k, cleaned) ==
    IF k = 0 THEN [wake_word |-> None, command |-> None]
    ELSE Extracted(text_lower, wake_words[k], cleaned)

\* the text lower-cased and stripped, searched for the wake words
Searched(text_lower, wake_words, cleaned) ==
    Found(text_lower, wake_words, FirstWakeWord(wake_words, text_lower, 1), cleaned)

\* ContinuousListener.extract_wake_word_and_command; cleaned is what clean_command,
\* which rests on the tokenizer and the tagger of NLTK, makes of the command text
extract_wake_word_and_command(wake_words, text, cleaned) ==
    Searched(StripText(Lower(text)), wake_words, cleaned)

\* the fallback stop words of setup_nlp
FallbackStopWords ==
    { "i", "me", "my", "myself", "we", "our", "ours", "ourselves", "you", "your", "yours",
      "yourself", "yourselves", "he", "him", "his", "himself", "she", "her", "hers",
      "herself", "it", "its", "itself", "they", "them", "their", "theirs", "themselves",
      "what", "which", "who", "whom", "this", "that", "these", "those", "am", "is", "are",
      "was", "were", "be", "been", "being", "have", "has", "had", "having", "do", "does",
      "did", "doing", "a", "an", "the", "and", "but", "if", "or", "because", "as", "until",
      "while", "of", "at", "by", "for", "with", "through", "during", "before", "after",
      "above", "below", "up", "down", "in", "out", "on", "off", "over", "under", "again",
      "further", "then", "once" }

\* stopwords.words('english'): the list the fallback was cut from, with the words
\* the fallback leaves out
NltkStopWords ==
    FallbackStopWords \cup
    { "about", "against", "between", "into", "to", "from", "here", "there", "when", "where",
      "why", "how", "all", "any", "both", "each", "few", "more", "most", "other", "some",
      "such", "no", "nor", "not", "only", "own", "same", "so", "than", "too", "very", "s",
      "t", "can", "will", "just", "don", "should", "now" }

\* self.filter_words, all categories
filter_words ==
    { "a", "an", "the",
      "in", "on", "at", "by", "for", "with", "to", "from", "of", "about",
      "and", "or", "but", "so", "yet",
      "i", "you", "he", "she", "it", "we", "they", "me", "him", "her", "us", "them",
      "please", "can", "could", "would", "will", "should", "may", "might" }

\* the command words clean_command keeps whatever their tag
KeptCommandWords ==
    {"open", "close", "play", "stop", "start", "search", "find", "tell", "show", "get"}

\* the words _simple_clean removes
SimplyRemoved == {"the", "a", "an", "please", "can", "you"}

\* str.isalnum()
IsAlnum(token) ==
    token # "" /\ \A i \in 1..Len(token) : IsLetter(Char(token, i)) \/ IsDigit(Char(token, i))

\* the word read so far, as a list of tokens
Flushed(word) == IF word = "" THEN <<>> ELSE <<word>>

\* word_tokenize on a text of letters, digits, spaces and punctuation marks: the
\* runs of letters and digits, and each punctuation mark as a token of its own
RECURSIVE TokensFrom(_, _, _)
TokensFrom(text, i, word) ==
    IF i > Len(text) THEN Flushed(word)
    ELSE IF IsAlnum(Char(text, i)) THEN TokensFrom(text, i + 1, word \o Char(text, i))
    ELSE IF Char(text, i) = " " THEN Flushed(word) \o TokensFrom(text, i + 1, "")
    ELSE Flushed(word) \o <<Char(text, i)>> \o TokensFrom(text, i + 1, "")

word_tokenize(text) == TokensFrom(text, 1, "")

\* str.split(): the runs of characters between the spaces
RECURSIVE SplitFrom(_, _, _)
SplitFrom(text, i, word) ==
    IF i > Len(text) THEN Flushed(word)
    ELSE IF Char(text, i) = " " THEN Flushed(word) \o SplitFrom(text, i + 1, "")
    ELSE SplitFrom(text, i + 1, word \o Char(text, i))

\* [token.lower() for token in tokens if token.isalnum()]
RECURSIVE AlnumTokens(_)
AlnumTokens(tokens) ==
    IF tokens = <<>> THEN <<>>
    ELSE IF IsAlnum(Head(tokens)) THEN <<Lower(Head(tokens))>> \o AlnumTokens(Tail(tokens))
    ELSE AlnumTokens(Tail(tokens))

\* the tokens that are not in the set of words
RECURSIVE TokensNotIn(_, _)
TokensNotIn(tokens, words) ==
    IF tokens = <<>> THEN <<>>
    ELSE IF Head(tokens) \in words THEN TokensNotIn(Tail(tokens), words)
    ELSE <<Head(tokens)>> \o TokensNotIn(Tail(tokens), words)

\* the loop over pos_tags: a token is kept when its tag is one of important_pos
\* (here: the token is among those the tagger tags so), when it is a command
\* word, or when it is neither a stop word nor a filter word
RECURSIVE ImportantTokens(_, _, _)
ImportantTokens(tokens, important, stop_words) ==
    IF tokens = <<>> THEN <<>>
    ELSE IF \/ Head(tokens) \in important
            \/ Head(tokens) \in KeptCommandWords
            \/ Head(tokens) \notin (stop_words \cup filter_words)
         THEN <<Head(tokens)>> \o ImportantTokens(Tail(tokens), important, stop_words)
         ELSE ImportantTokens(Tail(tokens), important, stop_words)

\* str.replace(word, ''), from position i on
RECURSIVE ReplacedFrom(_, _, _)
ReplacedFrom(command, word, i) ==
    IF i > Len(command) THEN ""
    ELSE IF i + Len(word) - 1 <= Len(command) /\ SubSeq(command, i, i + Len(word) - 1) = word
         THEN ReplacedFrom(command, word, i + Len(word))
         ELSE Char(command, i) \o ReplacedFrom(command, word, i + 1)

Without(command, word) == ReplacedFrom(command, word, 1)

\* a search or open command with what is left of it, or the bare word
WithTerms(word, terms) == IF terms # "" THEN word \o " " \o terms ELSE word

\* ContinuousListener._handle_special_cases
_handle_special_cases(command) ==
    IF Contains(command, "time") THEN "time"
    ELSE IF \E w \in {"weather", "temperature", "forecast"} : Contains(command, w) THEN "weather"
    ELSE IF \E w \in {"search", "google", "find"} : Contains(command, w)
         THEN WithTerms("search",
                        StripText(Without(Without(Without(command, "search"), "google"), "find")))
    ELSE IF Contains(command, "open") THEN WithTerms("open", StripText(Without(command, "open")))
    ELSE command

\* ContinuousListener._simple_clean
_simple_clean(text) == JoinWords(TokensNotIn(SplitFrom(text, 1, ""), SimplyRemoved))

\* if len(cleaned_tokens) < 1: the looser filter over all tokens
OrLooser(cleaned_tokens, tokens, stop_words) ==
    IF Len(cleaned_tokens) < 1 THEN TokensNotIn(tokens, stop_words \cup filter_words)
    ELSE cleaned_tokens

\* mutant: a command that the cleanup empties is answered by the text it was made of
CleanedOrText(command_text, tokens, important, stop_words) ==
    IF ImportantTokens(tokens, important, stop_words) = <<>> THEN command_text
    ELSE _handle_special_cases(JoinWords(ImportantTokens(tokens, important, stop_words)))

\* the try block of clean_command once the tokens are there
Cleaned(command_text, tokens, important, stop_words) ==
    _handle_special_cases(
        JoinWords(OrLooser(ImportantTokens(tokens, important, stop_words), tokens, stop_words)))

\* ContinuousListener.clean_command.  nlp is what NLTK does in this process:
\* nlp.raises when word_tokenize or pos_tag raise (their data is not installed),
\* nlp.important the tokens the tagger gives a tag of important_pos, nlp.stop_words
\* the stop words setup_nlp ended with
clean_command(command_text, nlp) ==
    IF nlp.raises THEN _simple_clean(command_text)
    ELSE Cleaned(command_text, AlnumTokens(word_tokenize(command_text)), nlp.important,
                 nlp.stop_words)

\* the command text of a recognized text, "" when no wake word is found
CommandTextOf(wake_words, text_lower) ==
    IF FirstWakeWord(wake_words, text_lower, 1) = 0 THEN ""
    ELSE IF wake_words[FirstWakeWord(wake_words, text_lower, 1)] = "" THEN ""
    ELSE CommandText(text_lower, wake_words[FirstWakeWord(wake_words, text_lower, 1)])

\* the nouns, verbs, adjectives, adverbs and numbers of the texts
ContentWords == {"play", "music", "time", "tell", "joke", "hello", "computer", "talking"}

\* NLTK in this process: not installed; installed with a tagger that tags the content
\* words, or one that tags every word, or none; the stop words missing
NlpOutcomes ==
    { [raises |-> TRUE, important |-> {}, stop_words |-> FallbackStopWords],
      [raises |-> FALSE, important |-> ContentWords, stop_words |-> NltkStopWords],
      [raises |-> FALSE, important |-> {}, stop_words |-> NltkStopWords],
      [raises |-> FALSE, important |-> ContentWords \cup {"the", "some", "me"},
       stop_words |-> NltkStopWords],
      [raises |-> FALSE, important |-> ContentWords, stop_words |-> FallbackStopWords] }

\* the texts the recognizer delivers
Transcripts ==
    { "Hey Jarvis play some music", "just talking, no wake word here", "jarvis",
      "Hey Jarvis  ", "  OK JARVIS", "computer tell jarvis hello", "jarvis computer",
      "Jarvis what time is it", "OK Jarvis tell me a joke", "hey jarvis, the",
      "computer", "", "jarvis the", "Jarvis, please", "ok jarvis ...", "jarvis open the door",
      "jarvis search for the cats" }

\* self.wake_words: the default list, the list jarvis.py configures, and others
WakeWordLists ==
    { <<"jarvis", "hey jarvis", "ok jarvis">>, <<"jarvis", "hey jarvis">>,
      <<"hey jarvis", "jarvis">>, <<"jarvis", "computer">>, <<"computer", "jarvis">> }

\* what extract_wake_word_and_command returns for each list, text and NLTK
ExtractedTexts ==
    [ c \in WakeWordLists \X Transcripts \X NlpOutcomes |->
        extract_wake_word_and_command(
            c[1], c[2], clean_command(CommandTextOf(c[1], StripText(Lower(c[2]))), c[3])) ]
    @@ EmptyDict

InitListener ==
    /\ context = ConversationContext(MaxHistory, ContextTimeout)
    /\ file = NoFile
    /\ now = 0
    /\ heard = NoCommand
    /\ threads = <<>>
    /\ call = [op |-> "__init__"]
    /\ result = None
    /\ added = <<>>
    /\ loaded = FALSE
    /\ saved = NoSnapshot
    /\ timer_service = TimerService

\* a text is recognized and searched for a wake word and a command
ExtractWakeWordAndCommand(wake_words, text, nlp) ==
    /\ result' = ExtractedTexts[<<wake_words, text, nlp>>]
    /\ call' = [ op |-> "extract_wake_word_and_command", wake_words |-> wake_words,
                 text |-> text, nlp |-> nlp ]
    /\ UNCHANGED <<timer_service, context, file, now, heard, threads, added, loaded, saved>>

NextListener ==
    \E wake_words \in WakeWordLists, text \in Transcripts, nlp \in NlpOutcomes :
        ExtractWakeWordAndCommand(wake_words, text, nlp)

SpecListener == InitListener /\ [][NextListener]_vars

----------------------------------------------------------------------------
(* SimpleCommands.process_command: the rules tried in order, each a search   *)
(* for words of the command and the handler called when it succeeds          *)

\* if re.search(all of when): the first of subs whose words are found decides the
\* handler, otherwise the handler is the one named (None: no handler is called)
Rule(when, subs, otherwise) == [when |-> when, subs |-> subs, otherwise |-> otherwise]

Sub(words, handler) == [when |-> words, handler |-> handler]

\* a rule with one search and one handler
Simple(phrases, handler) == Rule(<<phrases>>, <<>>, handler)

\* timers and reminders, "check before time commands"
TimerRules ==
    << Rule(<<Words({"timer"})>>,
            << Sub(Words({"start", "set"}), "start_timer"),
               Sub(Words({"stop", "cancel"}), "stop_timer"),
               Sub(Words({"list", "show"}), "list_timers") >>,
            None),
       Simple({<<"remind", "me">>, <<"reminder">>}, "set_reminder") >>

\* wikipedia, news, email, calendar, music; the second rule of each can never fire
RulesBeforeTime ==
    << Simple({<<"wikipedia">>, <<"search", "wikipedia">>, <<"wiki">>}, "search_wikipedia"),
       Rule(<<{<<"news">>, <<"latest", "news">>, <<"headlines">>}>>,
            << Sub(Words({"tech", "technology"}), "get_tech_news"),
               Sub(Words({"science"}), "get_science_news"),
               Sub(Words({"search"}), "search_news") >>,
            "get_general_news"),
       Rule(<<{<<"email">>, <<"emails">>, <<"check", "email">>}>>,
            << Sub(Words({"recent", "latest", "new"}), "get_recent_emails"),
               Sub(Words({"read"}), "read_email") >>,
            "get_email_summary"),
       Rule(<<Words({"calendar", "schedule", "appointment", "meeting"})>>,
            << Sub(Words({"add", "create", "schedule"}), "add_calendar_event"),
               Sub(Words({"today", "today's"}), "get_today_schedule"),
               Sub(Words({"upcoming", "next", "future"}), "get_upcoming_events") >>,
            "get_calendar_summary"),
       Rule(<<Words({"play", "music", "song", "spotify"})>>,
            << Sub(Words({"pause", "stop"}), "pause_music"),
               Sub(Words({"resume", "continue"}), "resume_music"),
               Sub(Words({"next", "skip"}), "next_track"),
               Sub(Words({"previous", "back"}), "previous_track"),
               Sub(Words({"volume"}), "set_music_volume") >>,
            "play_music"),
       Simple({<<"wikipedia">>, <<"search", "wikipedia">>, <<"wiki">>}, "search_wikipedia"),
       Simple({<<"news">>, <<"headlines">>, <<"latest", "news">>}, "get_news"),
       Simple({<<"email">>, <<"send", "email">>, <<"check", "email">>}, "handle_email"),
       Simple(Words({"calendar", "schedule", "appointment", "event"}), "handle_calendar"),
       Simple(Words({"play", "music", "song", "spotify", "pause", "volume"}), "handle_music") >>

\* "use word boundaries to avoid false matches"
TimeRule == << Simple({<<"time">>, <<"what", "time">>}, "get_time") >>

RulesAfterTime ==
    << Simple({<<"date">>, <<"what", "date">>}, "get_date"),
       Simple({<<"open", "google">>, <<"google">>}, "open_website"),
       Simple({<<"open", "youtube">>, <<"youtube">>}, "open_website"),
       Simple({<<"open", "github">>, <<"github">>}, "open_website"),
       Simple(Words({"notepad"}), "open_app"),
       Simple(Words({"calculator"}), "open_app"),
       Simple({<<"file", "explorer">>, <<"explorer">>}, "open_app"),
       Simple(Words({"sleep"}), "sleep_system"),
       Rule(<<Words({"weather"})>>, << Sub(Words({"forecast"}), "get_weather_forecast") >>,
            "get_weather"),
       Rule(<<Words({"convert"}), Words({"to", "into"})>>, <<>>, "convert_units"),
       Simple(Words({"calculate", "math", "plus", "minus", "times", "divide", "multiply",
                     "add", "subtract"}), "calculate"),
       Simple({<<"system", "info">>, <<"system", "information">>}, "get_system_info"),
       Simple({<<"disk", "space">>, <<"storage">>}, "get_disk_space"),
       Simple({<<"battery">>, <<"battery", "level">>}, "get_battery_info"),
       Simple({<<"running", "processes">>, <<"task", "manager">>}, "get_running_processes"),
       Simple({<<"network">>, <<"ip", "address">>}, "get_network_info"),
       Simple(Words({"uptime"}), "get_uptime"),
       Simple({<<"create", "folder">>, <<"make", "folder">>, <<"new", "folder">>}, "create_folder"),
       Simple({<<"list", "files">>, <<"show", "files">>}, "list_files"),
       Rule(<<{<<"joke">>, <<"tell", "me", "a", "joke">>, <<"make", "me", "laugh">>}>>,
            << Sub(Words({"programming", "coding", "developer"}), "tell_programming_joke"),
               Sub({<<"dad">>, <<"dad", "joke">>}, "tell_dad_joke") >>,
            "tell_joke"),
       Simple({<<"help">>, <<"what", "can", "you", "do">>}, "show_help"),
       Simple(Words({"goodbye", "exit", "quit"}), "goodbye") >>

\* mutant: the time rule is tried before the timer rule
RulesTimeFirst == TimeRule \o TimerRules \o RulesBeforeTime \o RulesAfterTime

\* the rules in the order of the code
dispatch_rules == TimerRules \o RulesBeforeTime \o TimeRule \o RulesAfterTime

\* the searches of the rule all succeed
RuleMatches(rule, command) == \A n \in 1..Len(rule.when) : Matches(command, rule.when[n])

\* the number of the first rule, from rule k on, that matches, or 0
RECURSIVE FirstRule(_, _, _)
FirstRule(rules, command, k) ==
    IF k > Len(rules) THEN 0
    ELSE IF RuleMatches(rules[k], command) THEN k
    ELSE FirstRule(rules, command, k + 1)

\* the handler the if/elif chain inside a rule calls
RECURSIVE SubHandler(_, _, _)
SubHandler(rule, command, n) ==
    IF n > Len(rule.subs) THEN rule.otherwise
    ELSE IF Matches(command, rule.subs[n].when) THEN rule.subs[n].handler
    ELSE SubHandler(rule, command, n + 1)

\* what process_command did: the rule that fired (0: none), the handler called, what
\* was spoken by process_command itself, the value returned
Dispatched(rules, command, k) ==
    IF k = 0
    THEN [rule |-> 0, handler |-> None, spoken |-> "I don't understand", returned |-> None]
    ELSE [ rule |-> k, handler |-> SubHandler(rules[k], command, 1), spoken |-> None,
           returned |-> IF SubHandler(rules[k], command, 1) = "goodbye" THEN "exit" ELSE None ]

\* SimpleCommands.process_command on the words of command.lower().strip()
simple_process_command(command) ==
    IF command = <<>> THEN [rule |-> 0, handler |-> None, spoken |-> None, returned |-> None]
    ELSE Dispatched(dispatch_rules, LowerAll(command), FirstRule(dispatch_rules, LowerAll(command), 1))

\* the words the commands of the model are made of, and the commands of the tests
CommandWords == {"timer", "time", "centimeters", "Start", "times", "real-time", "convert", "to"}

MaxWords == 3

SimpleCommandTexts ==
    UNION { [1..n -> CommandWords] : n \in 0..MaxWords }
        \cup { <<"what", "time", "is", "it">>, <<"timer", "for", "5", "minutes">>,
               <<"start", "timer", "for", "30", "seconds">>,
               <<"convert", "3", "feet", "to", "centimeters">>,
               <<"calculate", "25", "times", "4">>, <<"goodbye">>, <<"tell", "me", "a", "dad", "joke">> }

\* simple_process_command for the commands of the model, evaluated once (@@ makes
\* the table explicit)
DispatchedTexts ==
    [command \in SimpleCommandTexts |-> simple_process_command(command)] @@ EmptyDict

\* a command is handed to SimpleCommands
SimpleProcessCommand(command) ==
    /\ result' = DispatchedTexts[command]
    /\ call' = [op |-> "SimpleCommands.process_command", command |-> command]
    /\ UNCHANGED <<timer_service, context, file, now, heard, threads, added, loaded, saved>>

NextSimple == \E command \in SimpleCommandTexts : SimpleProcessCommand(command)

SpecSimple == InitResolver /\ [][NextSimple]_vars

----------------------------------------------------------------------------
(* TimerService under its threads: the caller of start_timer and stop_timer, *)
(* one statement at a time, and the thread of each timer                     *)

MaxTimers == 2

\* the caller is inside start_timer or stop_timer
Calling == "pc" \in DOMAIN call

\* the caller returns (raised = None) or the exception leaves stop_timer
Return(op, label, value) ==
    /\ call' = [op |-> op, label |-> label]
    /\ result' = value

\* start_timer, a duration given that _parse_duration understands: the entry is
\* stored and the thread started
StartTimer(label) ==
    /\ ~Calling
    /\ timer_service.timer_counter < MaxTimers
    /\ timer_service' = Started(timer_service, label)
    /\ threads' = Append(threads, TimerThread(timer_service.timer_counter + 1,
                                              LabelOrDefault(label, timer_service.timer_counter + 1)))
    /\ call' = [ op |-> "start_timer", label |-> label, pc |-> "thread",
                 timer_id |-> timer_service.timer_counter + 1 ]
    /\ result' = None
    /\ UNCHANGED <<context, file, now, heard, added, loaded, saved>>

\* self.active_timers[timer_id]['thread'] = timer_thread, and the message returned;
\* the KeyError of an entry already gone is caught by start_timer
SetThread ==
    /\ Calling /\ call.op = "start_timer" /\ call.pc = "thread"
    /\ IF HasKey(timer_service.active_timers, call.timer_id)
       THEN /\ timer_service' = [timer_service EXCEPT
                                    !.active_timers[call.timer_id].thread = call.timer_id]
            /\ Return("start_timer", call.label,
                      "Timer '" \o LabelOrDefault(call.label, call.timer_id) \o "' started")
       ELSE /\ timer_service' = timer_service
            /\ Return("start_timer", call.label, "I couldn't start that timer. Please try again.")
    /\ UNCHANGED <<context, file, now, heard, threads, added, loaded, saved>>

\* time.sleep(duration) is over
WakeUp(i) ==
    /\ At(i, "sleep")
    /\ Goto(i, "check")
    /\ UNCHANGED <<timer_service, context, file, now, heard, call, result, added, loaded, saved>>

\* if timer_id in self.active_timers
CheckTimer(i) ==
    /\ At(i, "check")
    /\ Goto(i, IF HasKey(timer_service.active_timers, threads[i].timer_id) THEN "del" ELSE "done")
    /\ UNCHANGED <<timer_service, context, file, now, heard, call, result, added, loaded, saved>>

\* del self.active_timers[timer_id]; a KeyError ends the thread in its except clause
DeleteTimer(i) ==
    /\ At(i, "del")
    /\ timer_service' =
           [timer_service EXCEPT
               !.active_timers = DelOwnTimer(@, threads[i].timer_id).active_timers]
    /\ threads' =
           [threads EXCEPT
               ![i].raised = DelOwnTimer(timer_service.active_timers, threads[i].timer_id).raised,
               ![i].pc = IF DelOwnTimer(timer_service.active_timers,
                                        threads[i].timer_id).raised = None
                         THEN "speak" ELSE "done"]
    /\ UNCHANGED <<context, file, now, heard, call, result, added, loaded, saved>>

\* print(message); if self.tts: self.tts.speak(message)
Announce(i) ==
    /\ At(i, "speak")
    /\ timer_service' = [timer_service EXCEPT !.tts = Append(@, Finished(threads[i].label))]
    /\ threads' = [threads EXCEPT ![i].announced = @ + 1, ![i].pc = "done"]
    /\ UNCHANGED <<context, file, now, heard, call, result, added, loaded, saved>>

\* stop_timer(label): if not self.active_timers: return "No active timers to stop."
StopTimer(label) ==
    /\ ~Calling
    /\ threads # <<>>
    /\ IF timer_service.active_timers = EmptyDict
       THEN Return("stop_timer", label, "No active timers to stop.")
       ELSE /\ call' = [ op |-> "stop_timer", label |-> label,
                         pc |-> IF label = None THEN "count" ELSE "iter" ]
            /\ result' = None
    /\ UNCHANGED <<timer_service, context, file, now, heard, threads, added, loaded, saved>>

\* count = len(self.active_timers)
CountTimers ==
    /\ Calling /\ call.pc = "count"
    /\ call' = [call EXCEPT !.pc = "clear"] @@ [count |-> Cardinality(DOMAIN timer_service.active_timers)]
    /\ UNCHANGED <<timer_service, context, file, now, heard, threads, result, added, loaded, saved>>

\* self.active_timers.clear(); return f"Stopped {count} timer..."
ClearTimers ==
    /\ Calling /\ call.pc = "clear"
    /\ timer_service' = [timer_service EXCEPT !.active_timers = EmptyDict]
    /\ threads' = MarkStopped(threads, DOMAIN timer_service.active_timers)
    /\ Return("stop_timer", call.label, StoppedCount(call.count))
    /\ UNCHANGED <<context, file, now, heard, added, loaded, saved>>

\* for timer_id, timer_data in self.active_timers.items(): the iterator is made
IterTimers ==
    /\ Calling /\ call.pc = "iter"
    /\ call' = [call EXCEPT !.pc = "next"]
               @@ [used |-> Cardinality(DOMAIN timer_service.active_timers), k |-> 0]
    /\ UNCHANGED <<timer_service, context, file, now, heard, threads, result, added, loaded, saved>>

\* the next item of the loop: a dict that changed its size raises RuntimeError; at
\* the end timer_to_stop is None; an item whose label is the label but for case
\* breaks the loop
NextItem ==
    /\ Calling /\ call.pc = "next"
    /\ IF Cardinality(DOMAIN timer_service.active_timers) # call.used
       THEN Return("stop_timer", call.label, "RuntimeError")
       ELSE IF call.k >= call.used
       THEN Return("stop_timer", call.label,
                   "No timer found with label '" \o call.label \o "'.")
       ELSE IF Lower(timer_service.active_timers[
                         KthKey(timer_service.active_timers, call.k + 1)].label)
                   = Lower(call.label)
       THEN /\ call' = [call EXCEPT !.pc = "delete"]
                       @@ [timer_to_stop |-> KthKey(timer_service.active_timers, call.k + 1)]
            /\ result' = result
       ELSE /\ call' = [call EXCEPT !.k = @ + 1]
            /\ result' = result
    /\ UNCHANGED <<timer_service, context, file, now, heard, threads, added, loaded, saved>>

\* if timer_to_stop: del self.active_timers[timer_to_stop]; return f"Stopped timer
\* '{label}'."; the KeyError of a timer already gone leaves stop_timer
DeleteFound ==
    /\ Calling /\ call.pc = "delete"
    /\ IF HasKey(timer_service.active_timers, call.timer_to_stop)
       THEN /\ timer_service' = [timer_service EXCEPT
                                    !.active_timers = DictDel(@, call.timer_to_stop)]
            /\ threads' = MarkStopped(threads, {call.timer_to_stop})
            /\ Return("stop_timer", call.label, "Stopped timer '" \o call.label \o "'.")
       ELSE /\ timer_service' = timer_service
            /\ threads' = threads
            /\ Return("stop_timer", call.label, "KeyError")
    /\ UNCHANGED <<context, file, now, heard, added, loaded, saved>>

\* the labels start_timer is given
StartLabels == {None, "tea"}

\* the labels stop_timer is given
StopLabels == {None, "tea", "TEA", "Timer 1", "egg"}

NextTimers ==
    \/ \E label \in StartLabels : StartTimer(label)
    \/ SetThread
    \/ \E i \in 1..MaxTimers : WakeUp(i)
    \/ \E i \in 1..MaxTimers : CheckTimer(i)
    \/ \E i \in 1..MaxTimers : DeleteTimer(i)
    \/ \E i \in 1..MaxTimers : Announce(i)
    \/ \E label \in StopLabels : StopTimer(label)
    \/ CountTimers
    \/ ClearTimers
    \/ IterTimers
    \/ NextItem
    \/ DeleteFound

SpecTimers == InitResolver /\ [][NextTimers]_vars

----------------------------------------------------------------------------
(* Claims about the Store *)

LastN(s, n) == SubSeq(s, Len(s) - (IF n < Len(s) THEN n ELSE Len(s)) + 1, Len(s))

\* C1: after any number of add_interaction calls on a freshly constructed Store,
\* conversation_history is exactly the last max_history interactions added, in the
\* order they were added.
C1_FifoEviction ==
    ~loaded => context.conversation_history = LastN(added, context.max_history)

\* more interactions were added than max_history, so the oldest were evicted
C1_Witness ==
    /\ ~loaded
    /\ call.op = "add_interaction"
    /\ Len(added) > context.max_history
    /\ context.max_history > 1

\* C2: the number of interactions in conversation_history never exceeds max_history.
C2_HistoryWithinMax ==
    Len(context.conversation_history) <= context.max_history

\* C10: save_context followed by load_context reproduces the saved
\* conversation_history, context_vars and entity memory exactly.
C10_RoundTrip ==
    (call.op = "load_context" /\ LoadSucceeds(file) /\ saved.valid) =>
        /\ context.conversation_history = saved.conversation_history
        /\ context.context_vars = saved.context_vars
        /\ context.entities = saved.entities

\* a snapshot with two interactions, a context variable, an entity and a timestamp
\* that is not a whole second has been loaded into a fresh Store
C10_Witness ==
    /\ call.op = "load_context"
    /\ saved.valid
    /\ added = <<>>
    /\ Len(context.conversation_history) >= 2
    /\ DOMAIN context.context_vars # {}
    /\ DOMAIN context.entities # {}
    /\ \E i \in 1..Len(context.conversation_history) :
           context.conversation_history[i].timestamp % TicksPerSecond # 0

\* C11: a load_context call that fails (missing file, unparsable file, or a
\* snapshot with a malformed interaction or timestamp at any position) leaves
\* conversation_history, context_vars, the entity memory, last_command_type and
\* last_response_time as they were before the call.
C11_FailedLoadKeepsState ==
    [][(call'.op = "load_context" /\ ~LoadSucceeds(file)) =>
           /\ context'.conversation_history = context.conversation_history
           /\ context'.context_vars = context.context_vars
           /\ context'.entities = context.entities
           /\ context'.last_command_type = context.last_command_type
           /\ context'.last_response_time = context.last_response_time]_vars

\* C12: save_context and load_context never raise to the caller, whatever I/O or
\* deserialization error occurs, and save_context leaves the Store's in-memory
\* state unchanged whether it succeeds or fails.
C12_PersistenceNeverRaises ==
    [][/\ call'.op \in {"save_context", "load_context"} => result' = None
       /\ call'.op = "save_context" => context' = context]_vars

\* a save failed while writing, and the load of the file it left failed too
C12_Witness ==
    /\ call.op = "load_context"
    /\ file = Garbage
    /\ context.conversation_history # <<>>

\* C13: clear_context resets the topic, entity and context-variable state:
\* last_command_type becomes None, context_vars becomes empty and no entity
\* mentioned before is reported as recent any more, while conversation_history
\* stays exactly as it was.
C13_ClearContextResets ==
    [][call'.op = "clear_context" =>
           /\ context'.last_command_type = None
           /\ context'.context_vars = EmptyDict
           /\ _get_recent_entities(context', now') = {}
           /\ context'.conversation_history = context.conversation_history]_vars

----------------------------------------------------------------------------
(* Claims about the Resolver *)

\* the clock reading of the call is past the timeout of the Store
TimedOut ==
    /\ context.last_response_time # NoTime
    /\ call.t - context.last_response_time > context.context_timeout * TicksPerSecond

\* C3: once now - last_response_time exceeds context_timeout, resolve_follow_up
\* returns resolved = false for every utterance, whatever cue words it contains, and
\* get_context_for_input reports is_follow_up = false and no implied command.
C3_TimeoutEndsFollowUp ==
    /\ (call.op = "resolve_follow_up" /\ TimedOut) => result.resolved = FALSE
    /\ (call.op = "get_context_for_input" /\ TimedOut) =>
           (result.is_follow_up = FALSE /\ result.implied_command = None)

\* an utterance with a follow-up cue, asked about after the timeout, on a Store that
\* still remembers the topic
C3_Witness ==
    /\ call.op = "resolve_follow_up"
    /\ TimedOut
    /\ Matches(call.user_input, follow_up_patterns)
    /\ context.last_command_type = "weather"
    /\ result.resolved = FALSE

InUnitInterval(x) == 0 <= x.num /\ x.num <= x.den /\ x.den > 0

\* C4: the overall confidence of every analysis analyze_input returns, and of every
\* response of resolve_intent, lies in [0, 1], also after the context has added 0.2.
C4_ConfidenceInUnitInterval ==
    /\ call.op = "analyze_input" => InUnitInterval(result.confidence)
    /\ call.op = "resolve_intent" =>
           (InUnitInterval(result.confidence) /\ InUnitInterval(result.analysis.confidence))

\* the context has resolved a reference and added its 0.2 to a confidence that was
\* above 0.7 before
C4_Witness ==
    /\ call.op = "resolve_intent"
    /\ HasKey(result.analysis, "resolved_intent")
    /\ RatLess(Tenths(9), result.confidence)

\* C5: the resolved_command of every response of resolve_intent has a function or an
\* error; it has no function exactly when no intent was detected or the intent has no
\* resolver, and then the error says which.
C5_FunctionOrError ==
    call.op = "resolve_intent" =>
        LET resolved_command == result.resolved_command
            intents == result.analysis.intents
        IN  /\ resolved_command.function # None \/ Get(resolved_command, "error") # None
            /\ resolved_command.function = None <=>
                   (intents = <<>> \/ intents[1].intent \notin command_mappings)
            /\ (resolved_command.function = None /\ intents = <<>>) =>
                   resolved_command.error = "No intent detected"
            /\ (resolved_command.function = None /\ intents # <<>>) =>
                   resolved_command.error = "No resolver for intent: " \o intents[1].intent

\* an utterance no intent is detected in
C5_Witness ==
    /\ call.op = "resolve_intent"
    /\ result.analysis.intents = <<>>
    /\ result.resolved_command.function = None
    /\ result.resolved_command.error = "No intent detected"

\* C6: the response of resolve_intent reports as original_input the utterance that
\* was said, also when a rewritten text was analysed in its place.
C6_OriginalInputAsSaid ==
    call.op = "resolve_intent" => result.original_input = call.user_input

\* the three conditions of clarification, on an analysis and a context
MustClarify(analysis, ctx) ==
    \/ analysis.confidence.num * 2 < analysis.confidence.den
    \/ /\ Len(analysis.intents) >= 2
       /\ LET x == analysis.intents[1].confidence
              y == analysis.intents[2].confidence
          IN  5 * (x.num * y.den - y.num * x.den) < x.den * y.den
    \/ /\ analysis.ambiguity.has_ambiguity
       /\ (~HasKey(ctx, "referenced_topic") \/ ctx.referenced_topic \in {None, ""})

\* C7: needs_clarification is true exactly when the overall confidence is below 0.5,
\* or two or more intents are ranked and the first two are less than 0.2 apart, or
\* ambiguity is flagged and the context has no referenced topic; intents at 0.55 and
\* 0.50 need clarification.
C7_NeedsClarificationExactly ==
    /\ call.op = "_needs_clarification" =>
           /\ result = MustClarify(call.analysis, call.ctx)
           /\ call.analysis.intents = << Ranked("weather", 55), Ranked("calendar", 50) >> =>
                  result = TRUE
    /\ call.op = "resolve_intent" =>
           result.needs_clarification = MustClarify(result.analysis, result.context)

\* a confident, unambiguous analysis with intents at 0.55 and 0.50
C7_Witness ==
    /\ call.op = "_needs_clarification"
    /\ call.analysis.intents = << Ranked("weather", 55), Ranked("calendar", 50) >>
    /\ call.analysis.confidence = Rat(90, 100)
    /\ ~call.analysis.ambiguity.has_ambiguity
    /\ result = TRUE

\* C8: resolve_intent leaves the Store as it found it: history, last command type,
\* last response time, context variables and entity memory.
C8_ResolveIntentLeavesStore ==
    [][call'.op = "resolve_intent" => context' = context]_vars

\* a follow-up was resolved against a Store that holds a turn
C8_Witness ==
    /\ call.op = "resolve_intent"
    /\ HasKey(result.context, "follow_up_resolved")
    /\ result.original_input # call.user_input
    /\ Len(context.conversation_history) = 1

\* the last interaction was about the weather and named a location, and the call
\* comes within the timeout
AfterWeatherQuery ==
    /\ context.last_command_type = "weather"
    /\ HasKey(context.context_vars, "last_location")
    /\ context.last_response_time # NoTime
    /\ ~TimedOut

\* C17: after add_interaction of a weather query that names a location L, with
\* command_type "weather", an utterance with the word "tomorrow" that arrives within
\* context_timeout is a follow-up: is_follow_up is true, referenced_topic is
\* "weather", implied_command is "weather_forecast", and resolve_follow_up returns
\* resolved = true with resolved_input "weather forecast tomorrow in L".
C17_TomorrowAfterWeather ==
    /\ (call.op = "get_context_for_input" /\ AfterWeatherQuery
            /\ ContainsWord(LowerAll(call.user_input), "tomorrow")) =>
           /\ result.is_follow_up = TRUE
           /\ result.referenced_topic = "weather"
           /\ result.implied_command = "weather_forecast"
    /\ (call.op = "resolve_follow_up" /\ AfterWeatherQuery
            /\ ContainsWord(LowerAll(call.user_input), "tomorrow")) =>
           /\ result.resolved = TRUE
           /\ result.command_type = "weather_forecast"
           /\ result.resolved_input = <<"weather", "forecast", "tomorrow", "in">>
                                          \o context.context_vars["last_location"]

\* "what about tomorrow" right after the weather in Seattle
C17_Witness ==
    /\ call.op = "resolve_follow_up"
    /\ AfterWeatherQuery
    /\ call.user_input = <<"what", "about", "tomorrow">>
    /\ result.resolved = TRUE
    /\ result.resolved_input = <<"weather", "forecast", "tomorrow", "in", "Seattle">>

\* no pattern of any intent matches the processed input
NoPatternMatches(processed_input) ==
    \A intent \in DOMAIN intent_patterns : MatchedPatterns(intent, processed_input) = <<>>

\* C18: whenever no intent pattern matches the preprocessed utterance, the resolved
\* command carries function = None and error = "No intent detected" (and
\* resolve_intent returns it instead of raising).
C18_NoPatternNoIntent ==
    (call.op = "resolve_intent" /\ NoPatternMatches(result.analysis.processed_input)) =>
        /\ result.resolved_command.function = None
        /\ Get(result.resolved_command, "error") = "No intent detected"

----------------------------------------------------------------------------
(* Claims about process_command *)

\* process_command has returned
Processed == call.op = "process_command" /\ ~heard.pending

\* the first two intents are less than 0.2 apart
TopTwoClose(intents) ==
    /\ Len(intents) >= 2
    /\ 5 * (intents[1].confidence.num * intents[2].confidence.den
               - intents[2].confidence.num * intents[1].confidence.den)
           < intents[1].confidence.den * intents[2].confidence.den

\* the prompt the rule chooses
PromptByRule(response) ==
    IF 10 * response.analysis.confidence.num < 3 * response.analysis.confidence.den
    THEN BeMoreSpecific
    ELSE IF TopTwoClose(response.analysis.intents)
    THEN DidYouWant(response.analysis.intents[1].intent, response.analysis.intents[2].intent)
    ELSE IF response.analysis.ambiguity.has_ambiguity
             /\ Get(response.context, "referenced_topic") \in {None, ""}
    THEN NeedMoreContext
    ELSE Rephrase

\* C19: when clarification is needed the prompt is chosen by rule: a confidence
\* below 0.3 gives the prompt to be more specific; otherwise two close intents give
\* the prompt that names the top two intents; otherwise an unresolved ambiguous
\* reference gives the prompt that asks for the referent; otherwise the prompt to
\* rephrase. The prompt that names two intents is chosen only when they are close.
C19_PromptByRule ==
    (Processed /\ result.resolved.needs_clarification) =>
        result.spoken = PromptByRule(result.resolved)

\* C20: a turn whose resolution needs clarification runs the clarification prompt
\* instead of the command: no handler runs and no interaction is added to the
\* Store. add_interaction is called once, after the handler has run, for a turn
\* whose resolved command has a function, and for no other turn; its command_type
\* is that function.
C20_ClarifyOrExecuteAndRecord ==
    [][ (heard.pending /\ call'.op = "process_command" /\ ~heard'.pending) =>
            /\ result'.resolved.needs_clarification =>
                   /\ result'.spoken = _handle_clarification_needed(result'.resolved)
                   /\ result'.handler = None
                   /\ result'.interactions = <<>>
                   /\ context' = context
            /\ (~result'.resolved.needs_clarification
                    /\ result'.resolved.resolved_command.function # None) =>
                   /\ result'.handler = result'.resolved.resolved_command.function
                   /\ Len(result'.interactions) = 1
                   /\ result'.interactions[1].command_type
                          = result'.resolved.resolved_command.function
                   /\ context'.last_command_type = result'.resolved.resolved_command.function
                   /\ context'.conversation_history
                          = AppendBounded(context.conversation_history, result'.interactions[1],
                                          context.max_history)
            /\ result'.resolved.resolved_command.function = None =>
                   /\ result'.handler = None
                   /\ result'.interactions = <<>>
                   /\ context' = context ]_vars

\* a turn that needed clarification on a Store with history, and one that was executed
C20_Witness ==
    /\ Processed
    /\ result.resolved.needs_clarification
    /\ result.spoken # None
    /\ context.conversation_history # <<>>
    /\ context.conversation_history[Len(context.conversation_history)].command_type = "timer"

\* the context variable tied to a command type, or None
TiedVar(command_type) ==
    CASE command_type = "weather" -> "last_location"
      [] command_type = "music" -> "last_music_query"
      [] command_type = "timer" -> "last_timer_duration"
      [] OTHER -> None

\* what the rule of the command type extracts from the utterance, <<>> for nothing
ExtractedFrom(command_type, user_input) ==
    CASE command_type = "weather" ->
             IF \E k \in 1..Len(user_input) : LocationMatchAt(user_input, k)
             THEN AlphaRun(user_input,
                           1 + FirstIndex({k \in 1..Len(user_input) : LocationMatchAt(user_input, k)}))
             ELSE <<>>
      [] command_type = "music" -> PlayQuery(user_input)
      [] command_type = "timer" -> TimerDuration(user_input)
      [] OTHER -> <<>>

\* the two dicts agree on every key but the given one
SameBut(before, after, key) ==
    \A k \in (DOMAIN before \cup DOMAIN after) \ {key} :
        k \in DOMAIN before /\ k \in DOMAIN after /\ before[k] = after[k]

\* C22: add_interaction with command_type T changes at most the one context
\* variable tied to T (weather: last_location, music: last_music_query, timer:
\* last_timer_duration) and overwrites it with the value extracted from this
\* utterance; every other context variable is left unchanged, and when nothing is
\* extracted or T is any other type (or None), context_vars is unchanged.
C22_OnlyTheTiedVariable ==
    [][ (call'.op = "add_interaction" /\ Len(added') = Len(added) + 1) =>
            /\ SameBut(context.context_vars, context'.context_vars,
                       TiedVar(added'[Len(added')].command_type))
            /\ ExtractedFrom(added'[Len(added')].command_type, added'[Len(added')].user_input) = <<>>
                   => context'.context_vars = context.context_vars
            /\ ExtractedFrom(added'[Len(added')].command_type, added'[Len(added')].user_input) # <<>>
                   => /\ HasKey(context'.context_vars, TiedVar(added'[Len(added')].command_type))
                      /\ context'.context_vars[TiedVar(added'[Len(added')].command_type)]
                             = ExtractedFrom(added'[Len(added')].command_type,
                                             added'[Len(added')].user_input) ]_vars

\* a location was overwritten on a Store that remembers a timer as well
C22_Witness ==
    /\ call.op = "add_interaction"
    /\ Len(added) = 3
    /\ added[1].user_input = WeatherTurn.user_input
    /\ added[2].command_type = "timer"
    /\ added[3].command_type = "weather"
    /\ context.context_vars = [last_location |-> <<"Boston">>, last_timer_duration |-> <<"5", "minute">>]

\* the source a parameter is to be filled from: the first entity of the type, else
\* the context variable when it is set, else what the regex finds in the raw text
ByPriority(response, entity_type, var_name, raw) ==
    IF HasKey(response.analysis.entities, entity_type)
    THEN response.analysis.entities[entity_type][1].value
    ELSE IF HasKey(response.context.context_vars, var_name)
              /\ response.context.context_vars[var_name] # <<>>
    THEN response.context.context_vars[var_name]
    ELSE raw

\* the parameter of the resolved command, <<>> when it has none of the name
Parameter(response, name) ==
    IF HasKey(response.resolved_command.parameters, name)
    THEN response.resolved_command.parameters[name]
    ELSE <<>>

\* C23: each per-intent resolver fills its parameter (weather location, music
\* query, timer duration) from an explicit entity of the utterance when one exists,
\* otherwise from the context variable (last_location, last_music_query,
\* last_timer_duration) when it is set, and only otherwise from the raw text; a
\* source of lower priority is never used when one of higher priority is available.
C23_ParameterByPriority ==
    Processed =>
        /\ Get(result.resolved.resolved_command, "method") = "set_timer" =>
               Parameter(result.resolved, "duration")
                   = ByPriority(result.resolved, "duration", "last_timer_duration",
                                TimerDuration(result.resolved.analysis.original_input))
        /\ Get(result.resolved.resolved_command, "method") = "play_music" =>
               Parameter(result.resolved, "query")
                   = ByPriority(result.resolved, "music_query", "last_music_query",
                                PlayQuery(result.resolved.analysis.original_input))
        /\ result.resolved.resolved_command.function = "weather" =>
               Parameter(result.resolved, "location")
                   = ByPriority(result.resolved, "location", "last_location", <<>>)

\* a confidence that is a number of tenths, as that number
InTenths(x) == (x.num * 10) \div x.den

\* the confidences, in tenths, of the entities of the types up to number k, summed
RECURSIVE TenthsOfEntities(_, _)
TenthsOfEntities(entities, k) ==
    IF k = 0 THEN 0
    ELSE TenthsOfEntities(entities, k - 1)
             + (IF HasKey(entities, EntityTypes[k])
                THEN LET list == entities[EntityTypes[k]]
                         Sum[n \in 0..Len(list)] ==
                             IF n = 0 THEN 0 ELSE Sum[n - 1] + InTenths(list[n].confidence)
                     IN  Sum[Len(list)]
                ELSE 0)

\* the number of entities of the types up to number k
RECURSIVE NumberOfEntities(_, _)
NumberOfEntities(entities, k) ==
    IF k = 0 THEN 0
    ELSE NumberOfEntities(entities, k - 1)
             + (IF HasKey(entities, EntityTypes[k]) THEN Len(entities[EntityTypes[k]]) ELSE 0)

\* 0.4 * top + 0.3 * mean + 0.2 for a verb + 0.1 for an object, in hundredths and
\* times the number c of entities (1 when there are none)
ComposedTimes(analysis, c) ==
    4 * c * (IF analysis.intents = <<>> THEN 0 ELSE InTenths(analysis.intents[1].confidence))
        + 3 * TenthsOfEntities(analysis.entities, Len(EntityTypes))
        + (IF analysis.command_structure.verb \notin {None, ""} THEN 20 * c ELSE 0)
        + (IF analysis.command_structure.object \notin {None, ""} THEN 10 * c ELSE 0)

\* x is n / d, capped at 1
IsCapped(x, n, d) == IF n > d THEN x.num = x.den ELSE x.num * d = n * x.den

\* the confidence of the analysis is the composition, scaled by 0.8 under ambiguity
Composed(analysis, c) ==
    /\ IF analysis.ambiguity.has_ambiguity
       THEN IsCapped(analysis.confidence, 8 * ComposedTimes(analysis, c), 1000 * c)
       ELSE IsCapped(analysis.confidence, ComposedTimes(analysis, c), 100 * c)
    /\ ComposedTimes(analysis, c) > 0 => analysis.confidence.num > 0

\* C24: before the context is folded in, the overall confidence is 0.4 * top intent
\* confidence + 0.3 * mean entity confidence (0 with no entities) + 0.2 if a verb was
\* found + 0.1 if an object was found, multiplied by 0.8 when has_ambiguity is true
\* and then capped at 1; the penalty only scales, so that a score that is not zero
\* never becomes zero because of ambiguity.
C24_ConfidenceComposition ==
    (call.op = "analyze_input" /\ call.ctx = EmptyDict) =>
        Composed(result, IF NumberOfEntities(result.entities, Len(EntityTypes)) = 0 THEN 1
                         ELSE NumberOfEntities(result.entities, Len(EntityTypes)))

\* an ambiguous utterance with an intent, entities, a verb and an object
C24_Witness ==
    /\ call.op = "analyze_input"
    /\ call.ctx = EmptyDict
    /\ result.ambiguity.has_ambiguity
    /\ result.intents # <<>>
    /\ NumberOfEntities(result.entities, Len(EntityTypes)) > 1
    /\ result.command_structure.verb # None
    /\ result.command_structure.object # None

\* C25: get_context_for_input returns a referenced_topic other than None only while
\* the last interaction is within context_timeout of now: once the timeout has
\* elapsed, an utterance with a pronoun or a reference cue no longer resolves to the
\* previous command type, so that stale context neither raises the confidence nor
\* suppresses clarification in resolve_intent.
C25_StaleTopicNotReferenced ==
    /\ (call.op = "get_context_for_input" /\ TimedOut) => result.referenced_topic = None
    /\ (call.op = "resolve_intent" /\ TimedOut) =>
           /\ result.context.referenced_topic = None
           /\ ~HasKey(result.analysis, "resolved_intent")

\* C27: after a successful load_context, last_command_type and last_response_time
\* are the command_type and timestamp of the newest loaded interaction, and are null
\* when the snapshot holds no interactions, whatever the Store held before the load.
C27_FollowUpStateFromSnapshot ==
    (call.op = "load_context" /\ LoadSucceeds(file)) =>
        LET history == context.conversation_history
        IN  IF history = <<>>
            THEN /\ context.last_command_type = None
                 /\ context.last_response_time = NoTime
            ELSE /\ context.last_command_type = history[Len(history)].command_type
                 /\ context.last_response_time = history[Len(history)].timestamp

\* clear_context was called on a Store with history and no interaction was added
\* since (every interaction that is added here has a command type)
Cleared == context.conversation_history # <<>> /\ context.last_command_type = None

\* C26: after clear_context and before the next add_interaction, for every utterance
\* get_context_for_input returns referenced_topic = None, implied_command = None and
\* empty context_vars, and resolve_follow_up never rewrites the text: when it reports
\* resolved = true, resolved_input equals the input.
C26_NothingLeftAfterClear ==
    /\ (call.op = "get_context_for_input" /\ Cleared) =>
           /\ result.referenced_topic = None
           /\ result.implied_command = None
           /\ result.context_vars = EmptyDict
    /\ (call.op = "resolve_follow_up" /\ Cleared /\ result.resolved) =>
           result.resolved_input = call.user_input

\* a follow-up cue right after clear_context: resolved, and the text as it was
C26_Witness ==
    /\ call.op = "resolve_follow_up"
    /\ Cleared
    /\ result.resolved = TRUE
    /\ result.resolved_input = call.user_input
    /\ Matches(call.user_input, reference_patterns)

----------------------------------------------------------------------------
(* Claims about the context read twice *)

\* get_context_for_input was called twice with one utterance, and nothing but the
\* caller's writes to the dict returned and the passing of time lay between
CalledTwice == call.op = "get_context_for_input" /\ call.calls = 2

\* no timeout of the Store ran out between the clock readings t1 and t2
NoTimeoutBetween(self, t1, t2) ==
    /\ self.last_response_time # NoTime => (Expired(self, t1) <=> Expired(self, t2))
    /\ \A e \in DOMAIN self.entities :
           (self.entities[e] > t1 - TimeoutTicks(self)) <=> (self.entities[e] > t2 - TimeoutTicks(self))

\* C14 as stated: two calls of get_context_for_input with the same utterance and
\* no add_interaction between them return identical Context values, and mutating
\* a returned Context does not change what the next call returns.
C14_IdempotentWhenever == CalledTwice => result.again = result.returned

\* C14, amended: the two calls return identical Context values, whatever the caller
\* did to the first one, provided no timeout of the Store ran out between them.
C14_IdempotentWithinTimeout ==
    (CalledTwice /\ NoTimeoutBetween(context, call.t, call.t2)) => result.again = result.returned

\* a follow-up was asked about twice, at two clock readings within the timeout, and
\* the caller wrote to the first Context in between
C14_Witness ==
    /\ CalledTwice
    /\ call.t2 > call.t
    /\ NoTimeoutBetween(context, call.t, call.t2)
    /\ result.returned.is_follow_up
    /\ DOMAIN result.returned.context_vars # {}
    /\ result.held # result.returned

----------------------------------------------------------------------------
(* Claims about the Listener *)

\* the wake words of the list that occur in the lower-cased text
Occurring(wake_words, text) ==
    { k \in 1..Len(wake_words) : Occurrences(Lower(text), wake_words[k]) # {} }

\* where the wake word with number k first occurs in the lower-cased text
PositionOf(wake_words, text, k) == FirstIndex(Occurrences(Lower(text), wake_words[k]))

\* the wake word that occurs first in the text: earliest position, then list order
EarliestWakeWord(wake_words, text) ==
    wake_words[CHOOSE k \in Occurring(wake_words, text) :
                   \A j \in Occurring(wake_words, text) :
                       \/ PositionOf(wake_words, text, k) < PositionOf(wake_words, text, j)
                       \/ /\ PositionOf(wake_words, text, k) = PositionOf(wake_words, text, j)
                          /\ k <= j]

\* C15: when several configured wake phrases occur in the transcript, the one
\* reported is the one that occurs first in the transcript (earliest string
\* position, list order only breaking ties): "hey jarvis" for "Hey Jarvis play
\* some music" with the wake phrases "jarvis", "hey jarvis".
C15_EarliestWakePhrase ==
    (call.op = "extract_wake_word_and_command" /\ Occurring(call.wake_words, call.text) # {}) =>
        result.wake_word = EarliestWakeWord(call.wake_words, call.text)

\* nothing but spaces follows the first occurrence of the wake word in the
\* lower-cased text
NothingFollows(text, wake_word) ==
    \A i \in (FirstIndex(Occurrences(Lower(text), wake_word)) + Len(wake_word))..Len(text) :
        Char(text, i) = " "

\* C16: (None, None) is returned exactly when no configured wake phrase occurs in
\* the lower-cased transcript, and (wake_phrase, None) when a wake phrase occurs
\* but nothing other than whitespace follows its end offset.
C16_NoWakeWordOrNoCommand ==
    call.op = "extract_wake_word_and_command" =>
        /\ (result.wake_word = None /\ result.command = None)
               <=> Occurring(call.wake_words, call.text) = {}
        /\ (result.wake_word # None /\ NothingFollows(call.text, result.wake_word))
               => result.command = None

\* a wake phrase was found at the end of a text with spaces after it
C16_Witness ==
    /\ call.op = "extract_wake_word_and_command"
    /\ call.text = "Hey Jarvis  "
    /\ result.wake_word # None
    /\ result.command = None

\* C28: extract_wake_word_and_command never returns an empty-string command:
\* whenever a wake phrase is found the command is None or a non-empty string, also
\* when the text after the wake phrase holds only stop words, fillers or punctuation.
C28_CommandNeverEmpty ==
    (call.op = "extract_wake_word_and_command" /\ result.wake_word # None) =>
        result.command # ""

\* C30: whenever resolve_intent returns a resolved command with a function, the
\* function is the name of the top-ranked intent of the analysis, whatever
\* resolved_intent context folding recorded; and every intent of the NLU intent
\* table has a resolver in command_mappings.
C30_FunctionIsTopIntent ==
    /\ \A k \in 1..Len(IntentNames) : IntentNames[k] \in command_mappings
    /\ call.op = "resolve_intent" =>
           /\ result.resolved_command.function # None =>
                  /\ result.analysis.intents # <<>>
                  /\ result.resolved_command.function = result.analysis.intents[1].intent
           /\ result.analysis.intents # <<>> =>
                  result.resolved_command.function = result.analysis.intents[1].intent

\* context folding recorded another intent than the top-ranked one, whose resolver ran
C30_Witness ==
    /\ call.op = "resolve_intent"
    /\ HasKey(result.analysis, "resolved_intent")
    /\ result.analysis.intents # <<>>
    /\ result.analysis.resolved_intent # result.analysis.intents[1].intent
    /\ result.resolved_command.function = result.analysis.intents[1].intent

----------------------------------------------------------------------------
(* Claims about TimerService *)

\* C29: a timer that stop_timer removed never announces that it has finished,
\* however stop_timer and the timer's thread interleave; a timer that was not
\* stopped announces exactly once, and is no longer among the active timers then.
C29_StoppedTimerIsSilent ==
    \A i \in 1..Len(threads) :
        "timer_id" \in DOMAIN threads[i] =>
            /\ threads[i].stopped => threads[i].announced = 0
            /\ threads[i].announced <= 1
            /\ threads[i].announced = 1 => ~HasKey(timer_service.active_timers, threads[i].timer_id)
            /\ (threads[i].pc = "done" /\ ~threads[i].stopped) => threads[i].announced = 1

\* stop_timer removed a timer whose thread had found it active and was about to
\* delete it: the thread has ended without a word, while another timer has announced
C29_Witness ==
    /\ call.op = "stop_timer"
    /\ ~Calling
    /\ \E i \in 1..Len(threads) :
           /\ threads[i].stopped
           /\ threads[i].pc = "done"
           /\ threads[i].raised = "KeyError"
           /\ threads[i].announced = 0
    /\ \E i \in 1..Len(threads) :
           /\ ~threads[i].stopped
           /\ threads[i].announced = 1
           /\ timer_service.tts # <<>>

----------------------------------------------------------------------------
(* Claims about SimpleCommands *)

\* the command has w as a whole word: between characters that are no word characters
HasWholeWord(command, w) ==
    \E i \in 1..Len(command) : \E a \in Occurrences(Lower(command[i]), w) :
        /\ (a = 1 \/ ~IsWordChar(Char(command[i], a - 1)))
        /\ (a + Len(w) - 1 = Len(command[i]) \/ ~IsWordChar(Char(command[i], a + Len(w))))

\* C21: process_command dispatches by the first matching rule, the timer rule before
\* the time rule, and the time rule matches "time" as a whole word only: a command
\* with the word "timer", or with no more than words that contain "time"
\* ("centimeters"), is never answered by the current-time handler, and "what time
\* is it" is.
C21_TimerBeforeTime ==
    call.op = "SimpleCommands.process_command" =>
        /\ HasWholeWord(call.command, "timer") => result.handler # "get_time"
        /\ ~HasWholeWord(call.command, "time") => result.handler # "get_time"
        /\ call.command = <<"what", "time", "is", "it">> => result.handler = "get_time"
        /\ result.rule # 0 =>
               /\ RuleMatches(dispatch_rules[result.rule], LowerAll(call.command))
               /\ \A k \in 1..(result.rule - 1) :
                      ~RuleMatches(dispatch_rules[k], LowerAll(call.command))

\* a command with both "timer" and "time" went to the timer
C21_Witness ==
    /\ call.op = "SimpleCommands.process_command"
    /\ call.command = <<"Start", "timer", "time">>
    /\ result.handler = "start_timer"

----------------------------------------------------------------------------
(* Claims about concurrent turns *)

\* every thread has returned from add_interaction
AllReturned ==
    /\ Len(threads) = MaxThreads
    /\ \A i \in 1..MaxThreads : threads[i].pc = "done"

\* C9: when two threads run add_interaction at the same time, the Store ends as
\* after the two calls in some order: the interactions that fit max_history are in
\* the history in timestamp order, last_command_type and last_response_time are
\* those of the interaction that is last, and every context variable written is there.
C9_ConcurrentTurnsSerialized ==
    AllReturned =>
        LET history == context.conversation_history
            fits == IF MaxThreads < context.max_history THEN MaxThreads ELSE context.max_history
        IN  /\ Len(history) = fits
            /\ \A k \in 1..(Len(history) - 1) : history[k].timestamp <= history[k + 1].timestamp
            /\ \E i \in 1..MaxThreads :
                   /\ threads[i].interaction = history[Len(history)]
                   /\ context.last_command_type = threads[i].turn.command_type
                   /\ context.last_response_time = threads[i].response_time
            /\ \A i \in 1..MaxThreads :
                   \A key \in DOMAIN _update_context_vars(context, threads[i].turn.user_input,
                                                          threads[i].turn.command_type) :
                       HasKey(context.context_vars, key)

====
